---------------------------- MODULE Spec2Model ----------------------------
(***************************************************************************)
(* Dual-provider authentication core of ContivosCRM: the credential store, *)
(* local registration and login, the password-reset token lifecycle, the   *)
(* passport session and the isAuthenticated / isAdmin gates, and the       *)
(* anti-CSRF pending-state map of the Microsoft SSO service.               *)
(*                                                                         *)
(* Strings whose content the code inspects (emails, passwords) are tuples  *)
(* of characters; timestamps are milliseconds on the clock `now`.          *)
(***************************************************************************)
EXTENDS Integers, Sequences, FiniteSets

(* ------------------------------ bounds -------------------------------- *)

\* Rows the audit log may hold for a handler that logs to be started.
MaxAudit == 3
\* Clock advances explored.
MaxTicks == 2
\* Distinct bcrypt salts the random source may produce.
NumSalts == 1
\* Browser sessions (cookies) in play.
MaxSessions == 2
\* Concurrent request slots.
MaxReqs == 2
\* Password-reset tokens issued.
MaxTokens == 1
\* Anti-CSRF state values the random source may produce.
MaxStates == 3
\* Federated login attempts started.
MaxLogins == 1
\* Federated login attempts started in the account lifecycle.
MaxSsoLogins == 2

(* ------------------------- program constants -------------------------- *)

SALT_ROUNDS == 12
RESET_TOKEN_EXPIRY_HOURS == 24
MinPasswordLength == 8
STATE_EXPIRY_MS == 10 * 60 * 1000

ResetTokenExpiryMs == RESET_TOKEN_EXPIRY_HOURS * 60 * 60 * 1000

(* ------------------------------ inputs -------------------------------- *)

EmailLower == <<"a", "@", "x">>
EmailUpper == <<"A", "@", "x">>
EmailOther == <<"b", "@", "x">>
Emails == {EmailLower, EmailUpper, EmailOther}

PwShort == [i \in 1..7 |-> "p"]
PwGood  == [i \in 1..8 |-> "p"]
PwOther == [i \in 1..8 |-> "q"]
Passwords == {PwShort, PwGood, PwOther}

Salts      == 1..NumSalts
SessionIds == 1..MaxSessions
ReqIds     == 1..MaxReqs
TokenIds   == 1..MaxTokens
StateIds   == 1..MaxStates

(* --------------------------- null encodings ---------------------------- *)

NullHash == <<>>
NullTime == -1
NullId   == "null"
NoUser   == 0
NoToken  == 0
NullEmail == <<>>

(* ------------------------------ messages ------------------------------- *)

ErrInvalidCredentials == "Invalid email or password"
ErrDisabled           == "Account is disabled. Contact your administrator."
ErrSsoAccount         == "This account uses Microsoft SSO. Please sign in with Microsoft."
ErrDuplicateEmail     == "Email already registered"
ErrWeakPassword       == "Password must be at least 8 characters"
ErrTokenInvalid       == "Invalid or expired reset token"
ErrTokenUsed          == "This reset token has already been used"
ErrTokenExpired       == "This reset token has expired"
ErrSsoOnlyReset       == "This account uses SSO. Password reset is not available."
MsgResetSent          ==
  "If an account exists with this email, a password reset link has been sent."
ErrState              == "Invalid or expired state parameter (possible CSRF attack)"
ErrExchange           == "Failed to authenticate with Microsoft"
ErrIdToken            == "Invalid authentication token from Microsoft"
ErrProfile            == "Failed to fetch Microsoft profile"
ErrMismatch           == "Authentication data mismatch"
ErrNoEmail            == "No email address found in Microsoft profile"
ErrTenant             == "Your organization is not authorized for SSO"
ErrDomain             == "Your email domain is not authorized for access"
ErrNoAccount          ==
  "Account does not exist. Contact your administrator for access."
ErrUserNotFound       == "User not found"
ErrCannotUnlink       ==
  "Cannot unlink Microsoft account without setting a password first"
ErrSsoFailed          == "SSO failed"
ErrRegistrationFailed == "Registration failed"

(* ------------------------------- state --------------------------------- *)

VARIABLES
  users,          \* table users: id -> row
  crmUsers,       \* table crm_users: auth user id -> role
  resetTokens,    \* table password_reset_tokens: id -> row
  ssoSettings,    \* table sso_settings: sequence of rows
  authAuditLog,   \* table auth_audit_log: sequence of rows, oldest first
  sessions,       \* passport sessions: session id -> serialized user id
  pendingStates,  \* MicrosoftAuthService.pendingStates: state -> createdAt
  now,            \* Date.now()
  ticks,          \* clock advances so far
  reqs,           \* request slots: handlers suspended at an await
  last,           \* the response of the handler that ran last
  ghost,          \* history: what callers supplied, what was issued
  auditDown       \* whether an insert into auth_audit_log fails

vars == <<users, crmUsers, resetTokens, ssoSettings, authAuditLog, sessions,
          pendingStates, now, ticks, reqs, last, ghost, auditDown>>

(* ------------------------------ helpers -------------------------------- *)

\* String.prototype.toLowerCase over the alphabet in use.
ToLowerChar(c) ==
  CASE c = "A" -> "a"
    [] c = "B" -> "b"
    [] OTHER   -> c

ToLowerCase(s) == [i \in DOMAIN s |-> ToLowerChar(s[i])]

\* bcrypt.hash: the hash string carries the cost, the salt and the digest.
BcryptHash(password, salt) == <<"2b", SALT_ROUNDS, salt, password>>

HashPassword(password, salt) == BcryptHash(password, salt)

VerifyPasswordNoCompare(password, hash) == TRUE

\* bcrypt.compare: re-hash with the salt the stored hash carries.
VerifyPassword(password, hash) == BcryptHash(password, hash[3]) = hash

\* select ... from users where email = e limit 1
UsersByEmail(e) == {u \in DOMAIN users : users[u].email = e}

\* f with key k bound to v.
Put(f, k, v) == [x \in DOMAIN f \cup {k} |-> IF x = k THEN v ELSE f[x]]

\* f without key k.
Drop(f, k) == [x \in DOMAIN f \ {k} |-> f[x]]

AuditEvent(userId, email, action, provider, success, failureReason) ==
  [userId |-> userId, email |-> email, action |-> action,
   provider |-> provider, success |-> success, failureReason |-> failureReason]

LogAuditEventDropsLog(log, data) == IF auditDown THEN <<>> ELSE Append(log, data)

\* logAuditEvent: insert into auth_audit_log; an insert that throws is
\* caught and written to the console, and the caller goes on.
LogAuditEvent(log, data) == IF auditDown THEN log ELSE Append(log, data)

CanLog == Len(authAuditLog) < MaxAudit

\* getSsoSettings()?.defaultRoleForSso || "sales"
DefaultRoleForSso ==
  IF Len(ssoSettings) = 0 THEN "sales"
  ELSE IF ssoSettings[1].defaultRoleForSso = NullId THEN "sales"
  ELSE ssoSettings[1].defaultRoleForSso

EnsureCrmUserAlwaysSales(crm, userId, authProvider) ==
  IF userId \in DOMAIN crm THEN crm ELSE Put(crm, userId, "sales")

\* ensureCrmUser: bootstrap the role-bearing profile when absent.
EnsureCrmUser(crm, userId, authProvider) ==
  IF userId \in DOMAIN crm THEN crm
  ELSE Put(crm, userId, IF authProvider = "local" THEN "sales" ELSE DefaultRoleForSso)

(* ------------------------------- Init ---------------------------------- *)

Idle == [pc |-> "idle", op |-> "none", overlaps |-> {}]

Init ==
  /\ users = <<>>
  /\ crmUsers = <<>>
  /\ resetTokens = <<>>
  /\ ssoSettings = <<>>
  /\ authAuditLog = <<>>
  /\ sessions = <<>>
  /\ pendingStates = <<>>
  /\ now = 0
  /\ ticks = 0
  /\ reqs = [r \in ReqIds |-> Idle]
  /\ last = [op |-> "none"]
  /\ ghost = [creds |-> <<>>, redeemed |-> {}, generated |-> <<>>, validated |-> {}]
  /\ auditDown = FALSE


(* ------------------------- local registration -------------------------- *)

NewUserId == Cardinality(DOMAIN users) + 1

RegisterLocalUserNoLower(email, password) ==
  IF UsersByEmail(email) # {} THEN [success |-> FALSE, error |-> ErrDuplicateEmail]
  ELSE IF Len(password) < MinPasswordLength THEN [success |-> FALSE, error |-> ErrWeakPassword]
  ELSE [success |-> TRUE, error |-> "", email |-> email]

RegisterLocalUserWeakFirst(email, password) ==
  IF Len(password) < MinPasswordLength
    THEN [success |-> FALSE, error |-> ErrWeakPassword]
  ELSE IF UsersByEmail(ToLowerCase(email)) # {}
    THEN [success |-> FALSE, error |-> ErrDuplicateEmail]
  ELSE [success |-> TRUE, error |-> "", email |-> ToLowerCase(email)]

\* AuthService.registerLocalUser, up to the insert: the checks and the
\* email the row is stored under.
RegisterLocalUser(email, password) ==
  IF UsersByEmail(ToLowerCase(email)) # {}
    THEN [success |-> FALSE, error |-> ErrDuplicateEmail]
  ELSE IF Len(password) < MinPasswordLength
    THEN [success |-> FALSE, error |-> ErrWeakPassword]
  ELSE [success |-> TRUE, error |-> "", email |-> ToLowerCase(email)]

\* lastName is handled by every statement exactly as firstName is and is
\* left out of the row.
NewLocalUser(email, passwordHash) ==
  [email |-> email, passwordHash |-> passwordHash, authProvider |-> "local",
   firstName |-> NullId, microsoftUserId |-> NullId, microsoftTenantId |-> NullId,
   isDisabled |-> FALSE, emailVerified |-> FALSE, lastLoginAt |-> NullTime]

\* POST /api/auth/register: registerLocalUser, ensureCrmUser, req.login.
Register(sid, email, password, salt) ==
  LET r == RegisterLocalUser(email, password)
      id == NewUserId
  IN  IF ~r.success
        THEN /\ last' = [op |-> "register", sid |-> sid, email |-> email,
                         password |-> password, status |-> 400,
                         message |-> r.error, userId |-> NoUser]
             /\ UNCHANGED <<users, crmUsers, resetTokens, ssoSettings, authAuditLog,
                            sessions, pendingStates, now, ticks, reqs, ghost, auditDown>>
        ELSE /\ CanLog
             /\ users' = Put(users, id, NewLocalUser(r.email, HashPassword(password, salt)))
             /\ authAuditLog' = LogAuditEvent(authAuditLog,
                    AuditEvent(id, r.email, "register", "local", TRUE, ""))
             /\ crmUsers' = EnsureCrmUser(crmUsers, id, "local")
             /\ sessions' = Put(sessions, sid, id)
             /\ ghost' = [ghost EXCEPT !.creds =
                    Put(@, id, [email |-> email, password |-> password])]
             /\ last' = [op |-> "register", sid |-> sid, email |-> email,
                         password |-> password, status |-> 201,
                         message |-> "", userId |-> id]
             /\ UNCHANGED <<resetTokens, ssoSettings, pendingStates, now, ticks, reqs,
                            auditDown>>

(* ----------------------------- local login ----------------------------- *)

LoginResult(success, error, userId, failureReason) ==
  [success |-> success, error |-> error, userId |-> userId,
   failureReason |-> failureReason]

LoginLocalUserNotFoundMessage(email, password) ==
  LET found == UsersByEmail(ToLowerCase(email))
      u == CHOOSE x \in found : TRUE
  IN  IF found = {}
        THEN LoginResult(FALSE, ErrUserNotFound, NoUser, "User not found")
      ELSE IF users[u].isDisabled
        THEN LoginResult(FALSE, ErrDisabled, u, "Account disabled")
      ELSE IF users[u].passwordHash = NullHash
        THEN LoginResult(FALSE, ErrSsoAccount, u, "No password set (SSO account)")
      ELSE IF ~VerifyPassword(password, users[u].passwordHash)
        THEN LoginResult(FALSE, ErrInvalidCredentials, u, "Invalid password")
      ELSE LoginResult(TRUE, "", u, "")

\* AuthService.loginLocalUser: the decision, in the order the code tests.
LoginLocalUser(email, password) ==
  LET found == UsersByEmail(ToLowerCase(email))
      u == CHOOSE x \in found : TRUE
  IN  IF found = {}
        THEN LoginResult(FALSE, ErrInvalidCredentials, NoUser, "User not found")
      ELSE IF users[u].isDisabled
        THEN LoginResult(FALSE, ErrDisabled, u, "Account disabled")
      ELSE IF users[u].passwordHash = NullHash
        THEN LoginResult(FALSE, ErrSsoAccount, u, "No password set (SSO account)")
      ELSE IF ~VerifyPassword(password, users[u].passwordHash)
        THEN LoginResult(FALSE, ErrInvalidCredentials, u, "Invalid password")
      ELSE LoginResult(TRUE, "", u, "")

\* POST /api/auth/login: LocalStrategy -> loginLocalUser; on success
\* req.login and ensureCrmUser, on failure 401 with the service's message.
Login(sid, email, password) ==
  LET r == LoginLocalUser(email, password) IN
  /\ CanLog
  /\ IF r.success
       THEN /\ users' = [users EXCEPT ![r.userId].lastLoginAt = now]
            /\ authAuditLog' = LogAuditEvent(authAuditLog,
                   AuditEvent(r.userId, users[r.userId].email, "login", "local", TRUE, ""))
            /\ sessions' = Put(sessions, sid, r.userId)
            /\ crmUsers' = EnsureCrmUser(crmUsers, r.userId, users[r.userId].authProvider)
            /\ last' = [op |-> "login", sid |-> sid, email |-> email,
                        password |-> password, status |-> 200, message |-> "",
                        userId |-> r.userId]
       ELSE /\ authAuditLog' = LogAuditEvent(authAuditLog,
                   AuditEvent(r.userId, email, "failed_login", "local", FALSE,
                              r.failureReason))
            /\ last' = [op |-> "login", sid |-> sid, email |-> email,
                        password |-> password, status |-> 401, message |-> r.error,
                        userId |-> r.userId]
            /\ UNCHANGED <<users, sessions, crmUsers>>
  /\ UNCHANGED <<resetTokens, ssoSettings, pendingStates, now, ticks, reqs, ghost,
                 auditDown>>

\* POST /api/auth/logout: req.logout ends the requester's session.
Logout(sid) ==
  /\ sid \in DOMAIN sessions
  /\ sessions' = Drop(sessions, sid)
  /\ last' = [op |-> "logout", sid |-> sid, status |-> 200]
  /\ UNCHANGED <<users, crmUsers, resetTokens, ssoSettings, authAuditLog,
                 pendingStates, now, ticks, reqs, ghost, auditDown>>

(* ------------------------ account lifecycle ---------------------------- *)

SetDisabled(userId, flag, action) ==
  IF userId \notin DOMAIN users
    THEN /\ last' = [op |-> action, userId |-> userId, success |-> FALSE,
                     error |-> "User not found"]
         /\ UNCHANGED <<users, authAuditLog>>
    ELSE /\ CanLog
         /\ users' = [users EXCEPT ![userId].isDisabled = flag]
         /\ authAuditLog' = LogAuditEvent(authAuditLog,
                AuditEvent(userId, users[userId].email, action, NullId, TRUE, ""))
         /\ last' = [op |-> action, userId |-> userId, success |-> TRUE, error |-> ""]

\* AuthService.disableUser
DisableUser(userId) ==
  /\ SetDisabled(userId, TRUE, "user_disabled")
  /\ UNCHANGED <<crmUsers, resetTokens, ssoSettings, sessions, pendingStates,
                 now, ticks, reqs, ghost, auditDown>>

\* AuthService.enableUser
EnableUser(userId) ==
  /\ SetDisabled(userId, FALSE, "user_enabled")
  /\ UNCHANGED <<crmUsers, resetTokens, ssoSettings, sessions, pendingStates,
                 now, ticks, reqs, ghost, auditDown>>

Roles == {"admin", "manager", "sales"}

\* DatabaseStorage.updateCrmUser: the surrounding application changes a role.
UpdateCrmUser(userId, role) ==
  /\ userId \in DOMAIN crmUsers
  /\ crmUsers' = [crmUsers EXCEPT ![userId] = role]
  /\ last' = [op |-> "updateCrmUser", userId |-> userId, role |-> role]
  /\ UNCHANGED <<users, resetTokens, ssoSettings, authAuditLog, sessions,
                 pendingStates, now, ticks, reqs, ghost, auditDown>>

(* -------------------------------- clock -------------------------------- *)

\* Time passes between requests.
Tick(d) ==
  /\ ticks < MaxTicks
  /\ now' = now + d
  /\ ticks' = ticks + 1
  /\ last' = [op |-> "tick"]
  /\ UNCHANGED <<users, crmUsers, resetTokens, ssoSettings, authAuditLog, sessions,
                 pendingStates, reqs, ghost, auditDown>>

(* ---------------------------- password reset --------------------------- *)

\* select ... from password_reset_tokens where token = t limit 1
TokensByToken(t) == {k \in DOMAIN resetTokens : resetTokens[k].token = t}

NewTokenId == Cardinality(DOMAIN resetTokens) + 1

ForgotPasswordAnyProvider(email) ==
  LET found == UsersByEmail(ToLowerCase(email))
      u == CHOOSE x \in found : TRUE
      id == Cardinality(DOMAIN resetTokens) + 1
  IN  IF found = {}
        THEN /\ last' = [op |-> "forgotPassword", email |-> email, status |-> 200,
                         message |-> MsgResetSent, token |-> NoToken]
             /\ UNCHANGED <<resetTokens, authAuditLog>>
      ELSE /\ CanLog
           /\ id \in TokenIds
           /\ resetTokens' = Put(resetTokens, id,
                  [userId |-> u, token |-> id,
                   expiresAt |-> now + ResetTokenExpiryMs, usedAt |-> NullTime])
           /\ authAuditLog' = LogAuditEvent(authAuditLog,
                  AuditEvent(u, users[u].email, "password_reset_request", "local",
                             TRUE, ""))
           /\ last' = [op |-> "forgotPassword", email |-> email, status |-> 200,
                       message |-> MsgResetSent, token |-> id]

\* POST /api/auth/forgot-password -> AuthService.createPasswordResetToken.
\* crypto.randomBytes(32) yields a value never issued before.
ForgotPassword(email) ==
  LET found == UsersByEmail(ToLowerCase(email))
      u == CHOOSE x \in found : TRUE
      id == NewTokenId
  IN  IF found = {}
        THEN /\ last' = [op |-> "forgotPassword", email |-> email, status |-> 200,
                         message |-> MsgResetSent, token |-> NoToken]
             /\ UNCHANGED <<resetTokens, authAuditLog>>
      ELSE IF users[u].authProvider # "local"
        THEN /\ last' = [op |-> "forgotPassword", email |-> email, status |-> 400,
                         message |-> ErrSsoOnlyReset, token |-> NoToken]
             /\ UNCHANGED <<resetTokens, authAuditLog>>
      ELSE /\ CanLog
           /\ id \in TokenIds
           /\ resetTokens' = Put(resetTokens, id,
                  [userId |-> u, token |-> id,
                   expiresAt |-> now + ResetTokenExpiryMs, usedAt |-> NullTime])
           /\ authAuditLog' = LogAuditEvent(authAuditLog,
                  AuditEvent(u, users[u].email, "password_reset_request", "local",
                             TRUE, ""))
           /\ last' = [op |-> "forgotPassword", email |-> email, status |-> 200,
                       message |-> MsgResetSent, token |-> id]

CreatePasswordResetToken(email) ==
  /\ ForgotPassword(email)
  /\ UNCHANGED <<users, crmUsers, ssoSettings, sessions, pendingStates, now, ticks,
                 reqs, ghost, auditDown>>

ResetPasswordCheckNoUsed(token, password) ==
  LET rows == TokensByToken(token)
      t == CHOOSE k \in rows : TRUE
  IN  IF rows = {} THEN ErrTokenInvalid
      ELSE IF now > resetTokens[t].expiresAt THEN ErrTokenExpired
      ELSE IF Len(password) < MinPasswordLength THEN ErrWeakPassword
      ELSE ""

ResetPasswordCheckWeakFirst(token, password) ==
  LET rows == TokensByToken(token)
      t == CHOOSE k \in rows : TRUE
  IN  IF rows = {} THEN ErrTokenInvalid
      ELSE IF resetTokens[t].usedAt # NullTime THEN ErrTokenUsed
      ELSE IF Len(password) < MinPasswordLength THEN ErrWeakPassword
      ELSE IF now > resetTokens[t].expiresAt THEN ErrTokenExpired
      ELSE ""

\* AuthService.resetPassword, the tests made on the row just read, in the
\* code's order; "" when the reset goes ahead.
ResetPasswordCheck(token, password) ==
  LET rows == TokensByToken(token)
      t == CHOOSE k \in rows : TRUE
  IN  IF rows = {} THEN ErrTokenInvalid
      ELSE IF resetTokens[t].usedAt # NullTime THEN ErrTokenUsed
      ELSE IF now > resetTokens[t].expiresAt THEN ErrTokenExpired
      ELSE IF Len(password) < MinPasswordLength THEN ErrWeakPassword
      ELSE ""

InFlight(q) == reqs[q].pc \notin {"idle", "done"}

\* A new request takes slot r; `overlaps` of a request names the slots whose
\* current request was suspended when it arrived.
Issue(r, rec) ==
  [q \in ReqIds |-> IF q = r THEN rec
                    ELSE [reqs[q] EXCEPT !.overlaps = @ \ {r}]]

\* resetPassword up to its first write: the select, the tests, the hash.
ResetSelect(r, token, password, salt) ==
  LET err == ResetPasswordCheck(token, password)
      t == CHOOSE k \in TokensByToken(token) : TRUE
  IN  /\ ~InFlight(r)
      /\ IF err # ""
           THEN /\ reqs' = Issue(r,
                      [pc |-> "done", op |-> "reset", token |-> token,
                       password |-> password, success |-> FALSE, error |-> err,
                       overlaps |-> {q \in ReqIds \ {r} : InFlight(q)}])
                /\ last' = [op |-> "resetPassword", phase |-> "select", req |-> r,
                            token |-> token, password |-> password,
                            status |-> 400, message |-> err]
           ELSE /\ CanLog
                /\ reqs' = Issue(r,
                      [pc |-> "updateUser", op |-> "reset", token |-> token,
                       password |-> password, success |-> FALSE, error |-> "",
                       overlaps |-> {q \in ReqIds \ {r} : InFlight(q)},
                       tokenId |-> t, userId |-> resetTokens[t].userId,
                       passwordHash |-> HashPassword(password, salt)])
                /\ last' = [op |-> "resetPassword", phase |-> "select", req |-> r,
                            token |-> token, password |-> password,
                            status |-> 0, message |-> ""]
      /\ UNCHANGED <<users, crmUsers, resetTokens, ssoSettings, authAuditLog,
                     sessions, pendingStates, now, ticks, ghost, auditDown>>

\* update users set passwordHash where id = resetToken.userId
ResetUpdateUser(r) ==
  /\ reqs[r].pc = "updateUser"
  /\ users' = [users EXCEPT ![reqs[r].userId].passwordHash = reqs[r].passwordHash]
  /\ reqs' = [reqs EXCEPT ![r].pc = "updateToken"]
  /\ last' = [op |-> "resetPassword", phase |-> "updateUser", req |-> r]
  /\ UNCHANGED <<crmUsers, resetTokens, ssoSettings, authAuditLog, sessions,
                 pendingStates, now, ticks, ghost, auditDown>>

\* update password_reset_tokens set usedAt = new Date() where id = resetToken.id
ResetUpdateToken(r) ==
  /\ reqs[r].pc = "updateToken"
  /\ resetTokens' = [resetTokens EXCEPT ![reqs[r].tokenId].usedAt = now]
  /\ reqs' = [reqs EXCEPT ![r].pc = "logAudit"]
  /\ last' = [op |-> "resetPassword", phase |-> "updateToken", req |-> r]
  /\ UNCHANGED <<users, crmUsers, ssoSettings, authAuditLog, sessions,
                 pendingStates, now, ticks, ghost, auditDown>>

\* the password_reset_complete audit event, then { success: true }
ResetComplete(r) ==
  /\ reqs[r].pc = "logAudit"
  /\ authAuditLog' = LogAuditEvent(authAuditLog,
         AuditEvent(reqs[r].userId, <<>>, "password_reset_complete", "local", TRUE, ""))
  /\ reqs' = [reqs EXCEPT ![r] =
         [pc |-> "done", op |-> "reset", token |-> reqs[r].token,
          password |-> reqs[r].password, success |-> TRUE, error |-> "",
          overlaps |-> reqs[r].overlaps]]
  /\ ghost' = [ghost EXCEPT !.redeemed = @ \cup {reqs[r].token}]
  /\ last' = [op |-> "resetPassword", phase |-> "complete", req |-> r,
              token |-> reqs[r].token, password |-> reqs[r].password,
              status |-> 200, message |-> ""]
  /\ UNCHANGED <<users, crmUsers, resetTokens, ssoSettings, sessions,
                 pendingStates, now, ticks, auditDown>>

(* ------------------------ session and the gates ------------------------ *)

NoAuthUser == [id |-> NoUser, isDisabled |-> FALSE]

\* serializeUser stores user.id; the session's user, NoUser without one.
SessionUser(sid) == IF sid \in DOMAIN sessions THEN sessions[sid] ELSE NoUser

DeserializeUserCached(id) ==
  IF id \notin DOMAIN users THEN NoAuthUser
  ELSE [id |-> id, isDisabled |-> FALSE]

\* passport.deserializeUser: the row is read again on every request.
DeserializeUser(id) ==
  IF id \notin DOMAIN users THEN NoAuthUser
  ELSE [id |-> id, isDisabled |-> users[id].isDisabled]

\* isAuthenticated: 401 without a user, 403 when disabled, else next().
IsAuthenticatedDecision(user) ==
  IF user.id = NoUser THEN "401"
  ELSE IF user.isDisabled THEN "403"
  ELSE "next"

IsAdminDecisionAnySession(user) ==
  IF user.id = NoUser THEN "401" ELSE "next"

\* isAdmin: 401 without a user, 403 unless the CRM profile's role is admin.
IsAdminDecision(user) ==
  IF user.id = NoUser THEN "401"
  ELSE IF user.id \notin DOMAIN crmUsers \/ crmUsers[user.id] # "admin" THEN "403"
  ELSE "next"

\* A request reaches the server: passport.session runs deserializeUser.
PassportSession(r, sid, gate) ==
  /\ ~InFlight(r)
  /\ reqs' = Issue(r,
        [pc |-> "gate", op |-> "gate", gate |-> gate, sid |-> sid,
         user |-> DeserializeUser(SessionUser(sid)), status |-> "",
         overlaps |-> {q \in ReqIds \ {r} : InFlight(q)},
         storeDisabled |-> /\ SessionUser(sid) \in DOMAIN users
                           /\ users[SessionUser(sid)].isDisabled])
  /\ last' = [op |-> "request", phase |-> "deserialize", req |-> r]
  /\ UNCHANGED <<users, crmUsers, resetTokens, ssoSettings, authAuditLog,
                 sessions, pendingStates, now, ticks, ghost, auditDown>>

\* The isAuthenticated middleware; req.logout on a disabled account.
IsAuthenticated(r) ==
  LET out == IsAuthenticatedDecision(reqs[r].user) IN
  /\ reqs[r].pc = "gate"
  /\ reqs[r].gate = "isAuthenticated"
  /\ sessions' = IF out = "403" THEN Drop(sessions, reqs[r].sid) ELSE sessions
  /\ reqs' = [reqs EXCEPT ![r].pc = "done", ![r].status = out]
  /\ last' = [op |-> "request", phase |-> "gate", req |-> r,
              gate |-> "isAuthenticated", sid |-> reqs[r].sid, status |-> out]
  /\ UNCHANGED <<users, crmUsers, resetTokens, ssoSettings, authAuditLog,
                 pendingStates, now, ticks, ghost, auditDown>>

\* The isAdmin middleware.
IsAdmin(r) ==
  LET out == IsAdminDecision(reqs[r].user) IN
  /\ reqs[r].pc = "gate"
  /\ reqs[r].gate = "isAdmin"
  /\ reqs' = [reqs EXCEPT ![r].pc = "done", ![r].status = out]
  /\ last' = [op |-> "request", phase |-> "gate", req |-> r,
              gate |-> "isAdmin", sid |-> reqs[r].sid, status |-> out]
  /\ UNCHANGED <<users, crmUsers, resetTokens, ssoSettings, authAuditLog,
                 sessions, pendingStates, now, ticks, ghost, auditDown>>

(* ------------------------- gate specification -------------------------- *)

NextGate ==
  \/ \E sid \in SessionIds, salt \in Salts : Register(sid, EmailLower, PwGood, salt)
  \/ \E sid \in SessionIds : Login(sid, EmailUpper, PwGood)
  \/ \E sid \in SessionIds : Logout(sid)
  \/ DisableUser(1)
  \/ EnableUser(1)
  \/ \E role \in {"admin", "sales"} : UpdateCrmUser(1, role)
  \/ \E sid \in SessionIds, gate \in {"isAuthenticated", "isAdmin"} :
        PassportSession(1, sid, gate)
  \/ IsAuthenticated(1)
  \/ IsAdmin(1)

SpecGate == Init /\ [][NextGate]_vars

(* --------------------- anti-CSRF pending states ------------------------ *)

\* cleanupExpiredStates: drop the entries older than STATE_EXPIRY_MS.
CleanupExpiredStates(pending) ==
  [v \in {x \in DOMAIN pending : ~(now - pending[x].createdAt > STATE_EXPIRY_MS)}
     |-> pending[v]]

\* generateState: crypto.randomBytes(32) yields a value never produced
\* before and never yet presented by a caller.
GenerateState(v) ==
  /\ v \in StateIds \ (DOMAIN ghost.generated \cup ghost.validated)
  /\ pendingStates' = CleanupExpiredStates(Put(pendingStates, v, [createdAt |-> now]))
  /\ ghost' = [ghost EXCEPT !.generated = Put(@, v, now)]
  /\ last' = [op |-> "generateState", state |-> v]
  /\ UNCHANGED <<users, crmUsers, resetTokens, ssoSettings, authAuditLog, sessions,
                 now, ticks, reqs, auditDown>>

ValidateStateResultNoExpiry(v) == v \in DOMAIN pendingStates

\* validateState: what it returns.
ValidateStateResult(v) ==
  /\ v \in DOMAIN pendingStates
  /\ ~(now - pendingStates[v].createdAt > STATE_EXPIRY_MS)

\* validateState: the entry is deleted on both paths that find it.
ValidateState(v) ==
  /\ pendingStates' = IF v \in DOMAIN pendingStates THEN Drop(pendingStates, v)
                      ELSE pendingStates
  /\ ghost' = [ghost EXCEPT !.validated = @ \cup {v}]
  /\ last' = [op |-> "validateState", state |-> v, result |-> ValidateStateResult(v)]
  /\ UNCHANGED <<users, crmUsers, resetTokens, ssoSettings, authAuditLog, sessions,
                 now, ticks, reqs, auditDown>>

(* --------------------- pending state specification --------------------- *)

NextState ==
  \/ \E v \in StateIds : GenerateState(v)
  \/ \E v \in StateIds : ValidateState(v)
  \/ \E d \in {1, STATE_EXPIRY_MS} : Tick(d)

SpecState == Init /\ [][NextState]_vars

(* -------------------- password reset specifications -------------------- *)

\* Concurrent redemption: several reset-password requests in flight.
NextReset ==
  \/ Register(1, EmailLower, PwGood, 1)
  \/ \E e \in {EmailUpper, EmailOther} : CreatePasswordResetToken(e)
  \/ \E r \in ReqIds, t \in TokenIds, p \in {PwShort, PwOther} :
        ResetSelect(r, t, p, 1)
  \/ \E r \in ReqIds : ResetUpdateUser(r)
  \/ \E r \in ReqIds : ResetUpdateToken(r)
  \/ \E r \in ReqIds : ResetComplete(r)

SpecReset == Init /\ [][NextReset]_vars

\* Expiry: one reset-password request at a time while the clock advances.
NextExpiry ==
  \/ \E salt \in Salts : Register(1, EmailLower, PwGood, salt)
  \/ CreatePasswordResetToken(EmailLower)
  \/ \E t \in TokenIds, p \in {PwShort, PwOther}, salt \in Salts :
        ResetSelect(1, t, p, salt)
  \/ ResetUpdateUser(1)
  \/ ResetUpdateToken(1)
  \/ ResetComplete(1)
  \/ \E d \in {1, ResetTokenExpiryMs} : Tick(d)

SpecExpiry == Init /\ [][NextExpiry]_vars

(* ------------------- register / login specification -------------------- *)

NextLogin ==
  \/ \E sid \in {1}, e \in Emails, p \in Passwords, salt \in Salts :
        Register(sid, e, p, salt)
  \/ \E sid \in {1}, e \in Emails, p \in Passwords : Login(sid, e, p)
  \/ \E u \in 1..2 : DisableUser(u)
  \/ \E u \in 1..2 : EnableUser(u)

SpecLogin == Init /\ [][NextLogin]_vars

(* ------------------------- federation policy --------------------------- *)

\* Column defaults of table sso_settings; {} stands for a null or empty list
\* (the code treats both alike: `list && list.length > 0`).
DefaultSsoSettings ==
  [allowedTenantIds |-> {}, allowedEmailDomains |-> {},
   defaultRoleForSso |-> "sales", autoProvisionUsers |-> TRUE]

\* { ...row, ...data }: the fields data carries replace the row's.
Merge(row, data) ==
  [f \in DOMAIN row |-> IF f \in DOMAIN data THEN data[f] ELSE row[f]]

\* AuthService.updateSsoSettings (PATCH /api/auth/sso-settings): update the
\* row when one exists, else insert one.
UpdateSsoSettings(data) ==
  /\ ssoSettings' = IF Len(ssoSettings) > 0
                      THEN [ssoSettings EXCEPT ![1] = Merge(@, data)]
                      ELSE <<Merge(DefaultSsoSettings, data)>>
  /\ last' = [op |-> "updateSsoSettings", data |-> data]
  /\ UNCHANGED <<users, crmUsers, resetTokens, authAuditLog, sessions,
                 pendingStates, now, ticks, reqs, ghost, auditDown>>

\* settings?.field, `ifNone` when there is no row.
Setting(field, ifNone) ==
  IF Len(ssoSettings) = 0 THEN ifNone ELSE ssoSettings[1][field]

(* --------------------------- federated login --------------------------- *)

\* MICROSOFT_TENANT_ID || "common", with the variable unset.
ConfigTenantId == "common"

AtPositions(s) == {i \in DOMAIN s : s[i] = "@"}

MinOf(S) == CHOOSE i \in S : \A j \in S : i <= j

\* email.split("@")[1]: the text between the first "@" and the next one;
\* the empty string also stands for undefined (no "@" at all).
EmailDomain(s) ==
  IF AtPositions(s) = {} THEN <<>>
  ELSE LET first == MinOf(AtPositions(s))
           later == {j \in AtPositions(s) : j > first}
           stop  == IF later = {} THEN Len(s) ELSE MinOf(later) - 1
       IN  SubSeq(s, first + 1, stop)

\* a || b on strings: the first one that is not empty.
OrElse(a, b) == IF a # <<>> THEN a ELSE b

SsoResult(kind, error, failureReason, email, userId) ==
  [kind |-> kind, error |-> error, failureReason |-> failureReason,
   email |-> email, userId |-> userId]

SsoDecisionDomainFirst(profile, tenantId) ==
  LET email == ToLowerCase(OrElse(profile.mail, profile.userPrincipalName))
      found == UsersByEmail(email)
      u == CHOOSE x \in found : TRUE
  IN  IF email = NullEmail
        THEN SsoResult("noEmail", ErrNoEmail, "", email, NoUser)
      ELSE IF /\ Setting("allowedEmailDomains", {}) # {}
              /\ EmailDomain(email) \notin Setting("allowedEmailDomains", {})
        THEN SsoResult("domain", ErrDomain, "Email domain not in allowed list",
                       email, NoUser)
      ELSE IF /\ Setting("allowedTenantIds", {}) # {}
              /\ tenantId \notin Setting("allowedTenantIds", {})
        THEN SsoResult("tenant", ErrTenant, "Tenant not in allowed list",
                       email, NoUser)
      ELSE IF found # {}
        THEN IF users[u].isDisabled
               THEN SsoResult("disabled", ErrDisabled, "Account disabled", email, u)
               ELSE SsoResult("update", "", "", email, u)
      ELSE IF Setting("autoProvisionUsers", TRUE) = FALSE
        THEN SsoResult("noProvision", ErrNoAccount,
                       "Auto-provisioning disabled and user does not exist",
                       email, NoUser)
      ELSE SsoResult("insert", "", "", email, NewUserId)

\* AuthService.handleMicrosoftSsoCallback: the decision, in the order the
\* code tests; the failure reasons are the code's without the interpolated
\* tenant id and domain.
SsoDecision(profile, tenantId) ==
  LET email == ToLowerCase(OrElse(profile.mail, profile.userPrincipalName))
      found == UsersByEmail(email)
      u == CHOOSE x \in found : TRUE
  IN  IF email = NullEmail
        THEN SsoResult("noEmail", ErrNoEmail, "", email, NoUser)
      ELSE IF /\ Setting("allowedTenantIds", {}) # {}
              /\ tenantId \notin Setting("allowedTenantIds", {})
        THEN SsoResult("tenant", ErrTenant, "Tenant not in allowed list",
                       email, NoUser)
      ELSE IF /\ Setting("allowedEmailDomains", {}) # {}
              /\ EmailDomain(email) \notin Setting("allowedEmailDomains", {})
        THEN SsoResult("domain", ErrDomain, "Email domain not in allowed list",
                       email, NoUser)
      ELSE IF found # {}
        THEN IF users[u].isDisabled
               THEN SsoResult("disabled", ErrDisabled, "Account disabled", email, u)
               ELSE SsoResult("update", "", "", email, u)
      ELSE IF Setting("autoProvisionUsers", TRUE) = FALSE
        THEN SsoResult("noProvision", ErrNoAccount,
                       "Auto-provisioning disabled and user does not exist",
                       email, NoUser)
      ELSE SsoResult("insert", "", "", email, NewUserId)

SsoUpdatedUserAlwaysFederated(row, profile, tenantId) ==
  [row EXCEPT !.microsoftUserId = profile.id,
              !.microsoftTenantId = tenantId,
              !.authProvider = "microsoft",
              !.firstName = IF profile.givenName # NullId THEN profile.givenName ELSE @,
              !.lastLoginAt = now]

\* The row after the update of an existing account on federated login.
SsoUpdatedUser(row, profile, tenantId) ==
  [row EXCEPT !.microsoftUserId = profile.id,
              !.microsoftTenantId = tenantId,
              !.authProvider = IF @ = "local" THEN "local" ELSE "microsoft",
              !.firstName = IF profile.givenName # NullId THEN profile.givenName ELSE @,
              !.lastLoginAt = now]

\* The row inserted by auto-provisioning.
NewSsoUser(email, profile, tenantId) ==
  [email |-> email, passwordHash |-> NullHash, authProvider |-> "microsoft",
   firstName |-> profile.givenName, microsoftUserId |-> profile.id,
   microsoftTenantId |-> tenantId, isDisabled |-> FALSE, emailVerified |-> TRUE,
   lastLoginAt |-> NullTime]

CallbackResult(error, calls, tenantId) ==
  [error |-> error, calls |-> calls, tenantId |-> tenantId]

\* verifiedClaims.email || verifiedClaims.preferred_username
IdTokenEmail(claims) == OrElse(claims.email, claims.preferred_username)

HandleCallbackIgnoreVerification(state, p) ==
  LET verified == p.idToken = "valid"
      c1 == <<"token">> \o (IF p.idToken # "absent" THEN <<"keys">> ELSE <<>>)
                        \o <<"profile">>
      needOrg == ~(verified /\ p.claims.tid # NullId)
      calls == c1 \o (IF needOrg THEN <<"organization">> ELSE <<>>)
      tenantId == IF ~needOrg THEN p.claims.tid
                  ELSE IF p.org # NullId THEN p.org
                  ELSE IF ConfigTenantId # NullId THEN ConfigTenantId
                  ELSE "unknown"
  IN  IF ~ValidateStateResult(state) THEN CallbackResult(ErrState, <<>>, NullId)
      ELSE IF ~p.tokenOk THEN CallbackResult(ErrExchange, <<"token">>, NullId)
      ELSE IF ~p.profileOk THEN CallbackResult(ErrProfile, c1, NullId)
      ELSE IF /\ verified
              /\ p.profile.mail # NullEmail
              /\ IdTokenEmail(p.claims) # NullEmail
              /\ ToLowerCase(IdTokenEmail(p.claims)) # ToLowerCase(p.profile.mail)
        THEN CallbackResult(ErrMismatch, calls, tenantId)
      ELSE CallbackResult("", calls, tenantId)

HandleCallbackOrganizationFirst(state, p) ==
  LET verified == p.idToken = "valid"
      calls == <<"token">> \o (IF p.idToken # "absent" THEN <<"keys">> ELSE <<>>)
                           \o <<"profile", "organization">>
      tenantId == IF p.org # NullId THEN p.org
                  ELSE IF verified /\ p.claims.tid # NullId THEN p.claims.tid
                  ELSE IF ConfigTenantId # NullId THEN ConfigTenantId
                  ELSE "unknown"
  IN  IF ~ValidateStateResult(state) THEN CallbackResult(ErrState, <<>>, NullId)
      ELSE IF ~p.tokenOk THEN CallbackResult(ErrExchange, <<"token">>, NullId)
      ELSE IF p.idToken = "invalid"
        THEN CallbackResult(ErrIdToken, <<"token", "keys">>, NullId)
      ELSE IF ~p.profileOk
        THEN CallbackResult(ErrProfile, SubSeq(calls, 1, Len(calls) - 1), NullId)
      ELSE IF /\ verified
              /\ p.profile.mail # NullEmail
              /\ IdTokenEmail(p.claims) # NullEmail
              /\ ToLowerCase(IdTokenEmail(p.claims)) # ToLowerCase(p.profile.mail)
        THEN CallbackResult(ErrMismatch, calls, tenantId)
      ELSE CallbackResult("", calls, tenantId)

HandleCallbackStateUnchecked(state, p) ==
  LET verified == p.idToken = "valid"
      c1 == <<"token">> \o (IF p.idToken # "absent" THEN <<"keys">> ELSE <<>>)
                        \o <<"profile">>
      needOrg == ~(verified /\ p.claims.tid # NullId)
      calls == c1 \o (IF needOrg THEN <<"organization">> ELSE <<>>)
      tenantId == IF ~needOrg THEN p.claims.tid
                  ELSE IF p.org # NullId THEN p.org
                  ELSE IF ConfigTenantId # NullId THEN ConfigTenantId
                  ELSE "unknown"
  IN  IF ~p.tokenOk THEN CallbackResult(ErrExchange, <<"token">>, NullId)
      ELSE IF p.idToken = "invalid"
        THEN CallbackResult(ErrIdToken, <<"token", "keys">>, NullId)
      ELSE IF ~p.profileOk THEN CallbackResult(ErrProfile, c1, NullId)
      ELSE IF /\ verified
              /\ p.profile.mail # NullEmail
              /\ IdTokenEmail(p.claims) # NullEmail
              /\ ToLowerCase(IdTokenEmail(p.claims)) # ToLowerCase(p.profile.mail)
        THEN CallbackResult(ErrMismatch, calls, tenantId)
      ELSE CallbackResult("", calls, tenantId)

\* MicrosoftAuthService.handleCallback up to the call of
\* handleMicrosoftSsoCallback: the error it returns ("" when it goes on), the
\* external calls it made, in order, and the tenant id it resolved.
\* `p` is what the provider answers: tokenOk (the token exchange), idToken
\* (absent, invalid or valid), claims (of a valid token), profileOk and
\* profile (Graph /me), org (Graph /organization).
HandleCallback(state, p) ==
  LET verified == p.idToken = "valid"
      c1 == <<"token">> \o (IF p.idToken # "absent" THEN <<"keys">> ELSE <<>>)
                        \o <<"profile">>
      needOrg == ~(verified /\ p.claims.tid # NullId)
      calls == c1 \o (IF needOrg THEN <<"organization">> ELSE <<>>)
      tenantId == IF ~needOrg THEN p.claims.tid
                  ELSE IF p.org # NullId THEN p.org
                  ELSE IF ConfigTenantId # NullId THEN ConfigTenantId
                  ELSE "unknown"
  IN  IF ~ValidateStateResult(state) THEN CallbackResult(ErrState, <<>>, NullId)
      ELSE IF ~p.tokenOk THEN CallbackResult(ErrExchange, <<"token">>, NullId)
      ELSE IF p.idToken = "invalid"
        THEN CallbackResult(ErrIdToken, <<"token", "keys">>, NullId)
      ELSE IF ~p.profileOk THEN CallbackResult(ErrProfile, c1, NullId)
      ELSE IF /\ verified
              /\ p.profile.mail # NullEmail
              /\ IdTokenEmail(p.claims) # NullEmail
              /\ ToLowerCase(IdTokenEmail(p.claims)) # ToLowerCase(p.profile.mail)
        THEN CallbackResult(ErrMismatch, calls, tenantId)
      ELSE CallbackResult("", calls, tenantId)

\* GET /api/auth/microsoft/callback: handleCallback, then on success
\* ensureCrmUser and req.login; every failure redirects to /login?error=...
MicrosoftCallback(sid, state, p) ==
  LET h == HandleCallback(state, p)
      d == SsoDecision(p.profile, h.tenantId)
      answer(success, message, userId) ==
        [op |-> "ssoCallback", sid |-> sid, state |-> state, provider |-> p,
         calls |-> h.calls, tenantId |-> h.tenantId, success |-> success,
         message |-> message, userId |-> userId]
  IN  /\ pendingStates' = IF state \in DOMAIN pendingStates
                            THEN Drop(pendingStates, state) ELSE pendingStates
      /\ ghost' = [ghost EXCEPT !.validated = @ \cup {state}]
      /\ IF h.error # ""
           THEN /\ last' = answer(FALSE, h.error, NoUser)
                /\ UNCHANGED <<users, crmUsers, authAuditLog, sessions>>
         ELSE IF d.kind = "noEmail"
           THEN /\ last' = answer(FALSE, d.error, NoUser)
                /\ UNCHANGED <<users, crmUsers, authAuditLog, sessions>>
         ELSE IF d.kind \in {"tenant", "domain", "disabled", "noProvision"}
           THEN /\ CanLog
                /\ authAuditLog' = LogAuditEvent(authAuditLog,
                       AuditEvent(d.userId, d.email, "failed_sso_login", "microsoft",
                                  FALSE, d.failureReason))
                /\ last' = answer(FALSE, d.error, d.userId)
                /\ UNCHANGED <<users, crmUsers, sessions>>
         ELSE /\ CanLog
              /\ users' = IF d.kind = "update"
                            THEN [users EXCEPT ![d.userId] =
                                    SsoUpdatedUser(@, p.profile, h.tenantId)]
                            ELSE Put(users, d.userId,
                                     NewSsoUser(d.email, p.profile, h.tenantId))
              /\ authAuditLog' = LogAuditEvent(authAuditLog,
                     AuditEvent(d.userId, d.email, "sso_login", "microsoft", TRUE, ""))
              /\ crmUsers' = EnsureCrmUser(crmUsers, d.userId,
                                           users'[d.userId].authProvider)
              /\ sessions' = Put(sessions, sid, d.userId)
              /\ last' = answer(TRUE, "", d.userId)
      /\ UNCHANGED <<resetTokens, ssoSettings, now, ticks, reqs, auditDown>>

(* ---------------------- federation link / unlink ----------------------- *)

\* AuthService.linkMicrosoftAccount
LinkMicrosoftAccount(userId, microsoftUserId, tenantId) ==
  /\ IF userId \notin DOMAIN users
       THEN /\ last' = [op |-> "link", userId |-> userId, success |-> FALSE,
                        error |-> ErrUserNotFound]
            /\ UNCHANGED <<users, authAuditLog>>
       ELSE /\ CanLog
            /\ users' = [users EXCEPT ![userId].microsoftUserId = microsoftUserId,
                                      ![userId].microsoftTenantId = tenantId]
            /\ authAuditLog' = LogAuditEvent(authAuditLog,
                   AuditEvent(userId, users[userId].email, "microsoft_account_linked",
                              "microsoft", TRUE, ""))
            /\ last' = [op |-> "link", userId |-> userId, success |-> TRUE,
                        error |-> ""]
  /\ UNCHANGED <<crmUsers, resetTokens, ssoSettings, sessions, pendingStates,
                 now, ticks, reqs, ghost, auditDown>>

UnlinkErrorNoPasswordTest(userId) ==
  IF userId \notin DOMAIN users THEN ErrUserNotFound ELSE ""

\* AuthService.unlinkMicrosoftAccount: the error it returns, "" when it
\* goes on to unlink.
UnlinkError(userId) ==
  IF userId \notin DOMAIN users THEN ErrUserNotFound
  ELSE IF /\ users[userId].authProvider = "microsoft"
          /\ users[userId].passwordHash = NullHash
    THEN ErrCannotUnlink
  ELSE ""

\* POST /api/auth/users/:id/unlink-microsoft
UnlinkMicrosoftAccount(userId) ==
  LET err == UnlinkError(userId) IN
  /\ IF err # ""
       THEN /\ last' = [op |-> "unlink", userId |-> userId, success |-> FALSE,
                        error |-> err]
            /\ UNCHANGED <<users, authAuditLog>>
       ELSE /\ CanLog
            /\ users' = [users EXCEPT ![userId].microsoftUserId = NullId,
                                      ![userId].microsoftTenantId = NullId,
                                      ![userId].authProvider = "local"]
            /\ authAuditLog' = LogAuditEvent(authAuditLog,
                   AuditEvent(userId, users[userId].email,
                              "microsoft_account_unlinked", "local", TRUE, ""))
            /\ last' = [op |-> "unlink", userId |-> userId, success |-> TRUE,
                        error |-> ""]
  /\ UNCHANGED <<crmUsers, resetTokens, ssoSettings, sessions, pendingStates,
                 now, ticks, reqs, ghost, auditDown>>

(* -------------------- federated login specification -------------------- *)

EmailForeign == <<"c", "@", "y">>

Profile(mail, userPrincipalName, givenName) ==
  [id |-> "m1", mail |-> mail, userPrincipalName |-> userPrincipalName,
   givenName |-> givenName]

Claims(tid, email, preferred_username) ==
  [tid |-> tid, email |-> email, preferred_username |-> preferred_username]

NoClaims == Claims(NullId, NullEmail, NullEmail)

Response(tokenOk, idToken, claims, profileOk, profile, org) ==
  [tokenOk |-> tokenOk, idToken |-> idToken, claims |-> claims,
   profileOk |-> profileOk, profile |-> profile, org |-> org]

\* The token exchange fails; the provider is asked nothing else.
NoAnswer ==
  Response(FALSE, "absent", NoClaims, FALSE, Profile(NullEmail, NullEmail, NullId),
           NullId)

\* What the identity provider may answer to one login attempt: one answer
\* for each way the callback can go.
ProviderResponses ==
  { NoAnswer,
    \* the ID token does not verify
    Response(TRUE, "invalid", NoClaims, TRUE,
             Profile(EmailLower, NullEmail, NullId), NullId),
    \* the profile fetch fails
    Response(TRUE, "valid", Claims("t1", EmailUpper, NullEmail), FALSE,
             Profile(EmailLower, NullEmail, NullId), NullId),
    \* no id_token in the token response
    Response(TRUE, "absent", NoClaims, TRUE,
             Profile(NullEmail, EmailOther, NullId), NullId),
    \* token and profile agree, ignoring case
    Response(TRUE, "valid", Claims("t1", EmailUpper, NullEmail), TRUE,
             Profile(EmailLower, NullEmail, "Al"), NullId),
    \* token and profile mail disagree
    Response(TRUE, "valid", Claims("t1", EmailUpper, NullEmail), TRUE,
             Profile(EmailForeign, NullEmail, NullId), NullId),
    \* the profile has no mail, only a principal name
    Response(TRUE, "valid", Claims("t1", EmailUpper, NullEmail), TRUE,
             Profile(NullEmail, EmailOther, NullId), NullId),
    Response(TRUE, "valid", Claims("t1", NullEmail, EmailOther), TRUE,
             Profile(NullEmail, EmailOther, NullId), NullId),
    \* the token has no tid: organization lookup
    Response(TRUE, "valid", Claims(NullId, EmailUpper, NullEmail), TRUE,
             Profile(EmailLower, NullEmail, NullId), "t2"),
    \* the token has no tid and the lookup fails
    Response(TRUE, "valid", Claims(NullId, NullEmail, NullEmail), TRUE,
             Profile(EmailForeign, NullEmail, NullId), NullId),
    \* the token has no email claim
    Response(TRUE, "valid", Claims("t1", NullEmail, NullEmail), TRUE,
             Profile(EmailForeign, NullEmail, NullId), NullId),
    \* the profile has no email at all
    Response(TRUE, "valid", Claims("t1", NullEmail, NullEmail), TRUE,
             Profile(NullEmail, NullEmail, NullId), NullId) }

PolicyPatches ==
  { [allowedTenantIds |-> {"t1"}],
    [allowedEmailDomains |-> {<<"x">>}, defaultRoleForSso |-> "manager"],
    [autoProvisionUsers |-> FALSE] }

LoginStates == 1..MaxLogins

\* The state values of the login attempts, in the order they are started;
\* none once MaxLogins attempts were started.
NextLoginState ==
  IF Cardinality(DOMAIN ghost.generated) < MaxLogins
    THEN Cardinality(DOMAIN ghost.generated) + 1 ELSE 0

\* A callback with a state that is not pending never asks the provider
\* anything: its answers are held at NoAnswer.

\* Federated login under the policy.
NextSso ==
  \/ Register(1, EmailLower, PwGood, 1)
  \/ \E data \in PolicyPatches : UpdateSsoSettings(data)
  \/ DisableUser(1)
  \/ GenerateState(NextLoginState)
  \/ \E v \in LoginStates, p \in ProviderResponses :
        /\ v \in DOMAIN pendingStates \/ p = NoAnswer
        /\ MicrosoftCallback(2, v, p)

SpecSso == Init /\ [][NextSso]_vars

\* Accounts of both origins: reset requests, link and unlink.
NextLink ==
  \/ Register(1, EmailLower, PwGood, 1)
  \/ GenerateState(NextLoginState)
  \/ \E v \in LoginStates,
        p \in {Response(TRUE, "valid", Claims("t1", NullEmail, NullEmail), TRUE, pr,
                        NullId) :
                 pr \in {Profile(EmailLower, NullEmail, "Al"),
                         Profile(EmailForeign, NullEmail, NullId),
                         Profile(NullEmail, EmailOther, NullId)}} :
           MicrosoftCallback(2, v, p)
  \/ \E e \in {EmailUpper, EmailOther, EmailForeign} : CreatePasswordResetToken(e)
  \/ \E u \in 1..3 : LinkMicrosoftAccount(u, "m2", "t2")
  \/ \E u \in 1..3 : UnlinkMicrosoftAccount(u)
  \/ Tick(1)

SpecLink == Init /\ [][NextLink]_vars


(* ----------------------- audit store availability ---------------------- *)

\* The auth_audit_log table stops or resumes accepting inserts.
AuditStore(down) ==
  /\ auditDown # down
  /\ auditDown' = down
  /\ last' = [op |-> "auditStore", down |-> down]
  /\ UNCHANGED <<users, crmUsers, resetTokens, ssoSettings, authAuditLog, sessions,
                 pendingStates, now, ticks, reqs, ghost>>

\* The audited operations while the audit store comes and goes.
NextAudit ==
  \/ \E down \in BOOLEAN : AuditStore(down)
  \/ \E p \in {PwShort, PwGood} : Register(1, EmailLower, p, 1)
  \/ \E p \in {PwGood, PwOther} : Login(1, EmailUpper, p)
  \/ DisableUser(1)
  \/ EnableUser(1)
  \/ CreatePasswordResetToken(EmailLower)
  \/ LinkMicrosoftAccount(1, "m2", "t2")
  \/ UnlinkMicrosoftAccount(1)

SpecAudit == Init /\ [][NextAudit]_vars


(* ------------------- account lifecycle specification ------------------- *)

\* Graph profiles of two people, the second with and without a given name.
AccountProfiles ==
  { Profile(EmailLower, NullEmail, "Al"),
    Profile(NullEmail, EmailOther, "Bo"), Profile(NullEmail, EmailOther, NullId) }

\* Every operation on accounts, one request at a time: register, local
\* login, federated login, reset request and redemption, link, unlink,
\* disable and enable.
NextAccounts ==
  \/ Register(1, EmailLower, PwGood, 1)
  \/ Login(1, EmailUpper, PwGood)
  \/ \E v \in 1..MaxSsoLogins :
        /\ v = Cardinality(DOMAIN ghost.generated) + 1
        /\ GenerateState(v)
  \/ \E v \in DOMAIN pendingStates, pr \in AccountProfiles :
        MicrosoftCallback(2, v,
           Response(TRUE, "valid", Claims("t1", NullEmail, NullEmail), TRUE, pr,
                    NullId))
  \/ \E e \in {EmailLower, EmailOther} : CreatePasswordResetToken(e)
  \/ \E t \in TokenIds : ResetSelect(1, t, PwOther, 1)
  \/ ResetUpdateUser(1)
  \/ ResetUpdateToken(1)
  \/ ResetComplete(1)
  \/ \E u \in 1..2 : LinkMicrosoftAccount(u, "m2", "t2")
  \/ \E u \in 1..2 : UnlinkMicrosoftAccount(u)
  \/ \E u \in 1..2 : DisableUser(u)
  \/ \E u \in 1..2 : EnableUser(u)

SpecAccounts == Init /\ [][NextAccounts]_vars


(* ------------------- federated login, await by await ------------------- *)

InsertUserNoConstraint(email) == FALSE

\* insert into users: the unique constraint on users.email rejects a row
\* whose email is already stored, and the insert throws.
InsertUserFails(email) == UsersByEmail(email) # {}

\* handleCallback from its start to its first await: validateState, then
\* the token exchange is sent. `plan` is what handleCallback does with the
\* answers `p` the provider gives when it gives them: the calls are sent one
\* by one, each after the answer to the one before.
CallbackStart(r, sid, state, p) ==
  LET h == HandleCallback(state, p)
      refused == h.error = ErrState
  IN  /\ ~InFlight(r)
      /\ ~refused => CanLog
      /\ pendingStates' = IF state \in DOMAIN pendingStates
                            THEN Drop(pendingStates, state) ELSE pendingStates
      /\ ghost' = [ghost EXCEPT !.validated = @ \cup {state}]
      /\ reqs' = Issue(r,
            [pc |-> IF refused THEN "done" ELSE "await", op |-> "callback",
             sid |-> sid, state |-> state, provider |-> p, plan |-> h,
             made |-> IF refused THEN 0 ELSE 1, answered |-> FALSE,
             success |-> FALSE, error |-> IF refused THEN ErrState ELSE "",
             userId |-> NoUser,
             overlaps |-> {q \in ReqIds \ {r} : InFlight(q)}])
      /\ last' = [op |-> "callback", phase |-> "start", req |-> r]
      /\ UNCHANGED <<users, crmUsers, resetTokens, ssoSettings, authAuditLog,
                     sessions, now, ticks, auditDown>>

\* The identity provider answers the call the handler is waiting on. The
\* calls carry no timeout: until this happens the handler stays suspended.
ProviderAnswers(r) ==
  /\ reqs[r].pc = "await"
  /\ ~reqs[r].answered
  /\ reqs' = [reqs EXCEPT ![r].answered = TRUE]
  /\ last' = [op |-> "provider", req |-> r]
  /\ UNCHANGED <<users, crmUsers, resetTokens, ssoSettings, authAuditLog, sessions,
                 pendingStates, now, ticks, ghost, auditDown>>

\* handleCallback resumes with the answer: it sends the next call, returns
\* its error, or calls handleMicrosoftSsoCallback.
CallbackResume(r) ==
  LET q == reqs[r] IN
  /\ q.pc = "await"
  /\ q.answered
  /\ reqs' = IF q.made < Len(q.plan.calls)
               THEN [reqs EXCEPT ![r].made = @ + 1, ![r].answered = FALSE]
             ELSE IF q.plan.error # ""
               THEN [reqs EXCEPT ![r].pc = "done", ![r].error = q.plan.error]
             ELSE [reqs EXCEPT ![r].pc = "select"]
  /\ last' = [op |-> "callback", phase |-> "resume", req |-> r]
  /\ UNCHANGED <<users, crmUsers, resetTokens, ssoSettings, authAuditLog, sessions,
                 pendingStates, now, ticks, ghost, auditDown>>

\* handleMicrosoftSsoCallback up to the insert: the policy tests, the
\* select, and for an account that exists the rejection or the update; the
\* route's ensureCrmUser and req.login after a success.
CallbackSelect(r) ==
  LET q == reqs[r]
      d == SsoDecision(q.provider.profile, q.plan.tenantId)
  IN  /\ q.pc = "select"
      /\ last' = [op |-> "callback", phase |-> "select", req |-> r]
      /\ IF d.kind = "noEmail"
           THEN /\ reqs' = [reqs EXCEPT ![r].pc = "done", ![r].error = d.error]
                /\ UNCHANGED <<users, crmUsers, authAuditLog, sessions>>
         ELSE IF d.kind \in {"tenant", "domain", "disabled", "noProvision"}
           THEN /\ authAuditLog' = LogAuditEvent(authAuditLog,
                       AuditEvent(d.userId, d.email, "failed_sso_login", "microsoft",
                                  FALSE, d.failureReason))
                /\ reqs' = [reqs EXCEPT ![r].pc = "done", ![r].error = d.error]
                /\ UNCHANGED <<users, crmUsers, sessions>>
         ELSE IF d.kind = "update"
           THEN /\ users' = [users EXCEPT ![d.userId] =
                               SsoUpdatedUser(@, q.provider.profile, q.plan.tenantId)]
                /\ authAuditLog' = LogAuditEvent(authAuditLog,
                       AuditEvent(d.userId, d.email, "sso_login", "microsoft", TRUE, ""))
                /\ crmUsers' = EnsureCrmUser(crmUsers, d.userId,
                                             users'[d.userId].authProvider)
                /\ sessions' = Put(sessions, q.sid, d.userId)
                /\ reqs' = [reqs EXCEPT ![r].pc = "done", ![r].success = TRUE,
                                        ![r].userId = d.userId]
         ELSE /\ reqs' = [reqs EXCEPT ![r].pc = "insert"]
              /\ UNCHANGED <<users, crmUsers, authAuditLog, sessions>>
      /\ UNCHANGED <<resetTokens, ssoSettings, pendingStates, now, ticks, ghost,
                     auditDown>>

\* The insert of auto-provisioning, the sso_login event, ensureCrmUser and
\* req.login; an insert that throws reaches the route's catch.
CallbackInsert(r) ==
  LET q == reqs[r]
      pr == q.provider.profile
      email == ToLowerCase(OrElse(pr.mail, pr.userPrincipalName))
      id == NewUserId
  IN  /\ q.pc = "insert"
      /\ q.op = "callback"
      /\ last' = [op |-> "callback", phase |-> "insert", req |-> r]
      /\ IF InsertUserFails(email)
           THEN /\ reqs' = [reqs EXCEPT ![r].pc = "done", ![r].error = ErrSsoFailed]
                /\ UNCHANGED <<users, crmUsers, authAuditLog, sessions>>
           ELSE /\ users' = Put(users, id, NewSsoUser(email, pr, q.plan.tenantId))
                /\ authAuditLog' = LogAuditEvent(authAuditLog,
                       AuditEvent(id, email, "sso_login", "microsoft", TRUE, ""))
                /\ crmUsers' = EnsureCrmUser(crmUsers, id, "microsoft")
                /\ sessions' = Put(sessions, q.sid, id)
                /\ reqs' = [reqs EXCEPT ![r].pc = "done", ![r].success = TRUE,
                                        ![r].userId = id]
      /\ UNCHANGED <<resetTokens, ssoSettings, pendingStates, now, ticks, ghost,
                     auditDown>>

\* What the provider answers in the runs below: the token exchange fails;
\* or a login of b@x goes through all four calls, its tenant coming from
\* the organization lookup.
CallbackAnswers ==
  { NoAnswer,
    Response(TRUE, "valid", Claims(NullId, NullEmail, EmailOther), TRUE,
             Profile(NullEmail, EmailOther, NullId), "t2") }

\* Federated logins in flight while the clock advances.
NextCallback ==
  \/ GenerateState(NextLoginState)
  \/ \E r \in ReqIds, v \in LoginStates, p \in CallbackAnswers :
        /\ ValidateStateResult(v) \/ p = NoAnswer
        /\ CallbackStart(r, 2, v, p)
  \/ \E r \in ReqIds : ProviderAnswers(r)
  \/ \E r \in ReqIds : CallbackResume(r)
  \/ \E r \in ReqIds : CallbackSelect(r)
  \/ \E r \in ReqIds : CallbackInsert(r)
  \/ Tick(STATE_EXPIRY_MS + 1)

SpecCallback == Init /\ [][NextCallback]_vars

\* The event loop runs a handler whose awaited call was answered; nothing
\* in the code makes the provider answer.
SpecCallbackLive ==
  /\ SpecCallback
  /\ WF_vars(\E r \in ReqIds : CallbackResume(r) \/ CallbackSelect(r) \/ CallbackInsert(r))

(* ---------------------- registration, step by step --------------------- *)

\* registerLocalUser up to the insert: the select, the tests, the hash.
RegisterSelect(r, sid, email, password, salt) ==
  LET res == RegisterLocalUser(email, password) IN
  /\ ~InFlight(r)
  /\ res.success => CanLog
  /\ reqs' = Issue(r,
        IF res.success
          THEN [pc |-> "insert", op |-> "register", sid |-> sid, email |-> res.email,
                password |-> password, passwordHash |-> HashPassword(password, salt),
                status |-> 0, message |-> "",
                overlaps |-> {q \in ReqIds \ {r} : InFlight(q)}]
          ELSE [pc |-> "done", op |-> "register", sid |-> sid, email |-> email,
                password |-> password, passwordHash |-> NullHash,
                status |-> 400, message |-> res.error,
                overlaps |-> {q \in ReqIds \ {r} : InFlight(q)}])
  /\ last' = [op |-> "register", phase |-> "select", req |-> r]
  /\ UNCHANGED <<users, crmUsers, resetTokens, ssoSettings, authAuditLog, sessions,
                 pendingStates, now, ticks, ghost, auditDown>>

\* The insert, the register event, ensureCrmUser and req.login; an insert
\* that throws reaches the route's catch: 500.
RegisterInsert(r) ==
  LET q == reqs[r]
      id == NewUserId
  IN  /\ q.pc = "insert"
      /\ q.op = "register"
      /\ last' = [op |-> "register", phase |-> "insert", req |-> r]
      /\ IF InsertUserFails(q.email)
           THEN /\ reqs' = [reqs EXCEPT ![r].pc = "done", ![r].status = 500,
                                        ![r].message = ErrRegistrationFailed]
                /\ UNCHANGED <<users, crmUsers, authAuditLog, sessions, ghost>>
           ELSE /\ users' = Put(users, id, NewLocalUser(q.email, q.passwordHash))
                /\ authAuditLog' = LogAuditEvent(authAuditLog,
                       AuditEvent(id, q.email, "register", "local", TRUE, ""))
                /\ crmUsers' = EnsureCrmUser(crmUsers, id, "local")
                /\ sessions' = Put(sessions, q.sid, id)
                /\ ghost' = [ghost EXCEPT !.creds =
                       Put(@, id, [email |-> q.email, password |-> q.password])]
                /\ reqs' = [reqs EXCEPT ![r].pc = "done", ![r].status = 201]
      /\ UNCHANGED <<resetTokens, ssoSettings, pendingStates, now, ticks, auditDown>>

\* Concurrent registrations and federated logins of one person, the email
\* written in either case.
NextUnique ==
  \/ \E r \in ReqIds, e \in {EmailLower, EmailUpper} :
        RegisterSelect(r, 1, e, PwGood, 1)
  \/ \E r \in ReqIds : RegisterInsert(r)
  \/ GenerateState(NextLoginState)
  \/ \E r \in ReqIds, v \in DOMAIN pendingStates :
        CallbackStart(r, 2, v,
           Response(TRUE, "valid", Claims("t1", EmailUpper, NullEmail), TRUE,
                    Profile(EmailUpper, NullEmail, NullId), NullId))
  \/ \E r \in ReqIds : ProviderAnswers(r)
  \/ \E r \in ReqIds : CallbackResume(r)
  \/ \E r \in ReqIds : CallbackSelect(r)
  \/ \E r \in ReqIds : CallbackInsert(r)

SpecUnique == Init /\ [][NextUnique]_vars


(* -------------------- policy update, step by step ---------------------- *)

\* updateSsoSettings up to its write: getSsoSettings reads the first row.
SsoSettingsSelect(r, data) ==
  /\ ~InFlight(r)
  /\ reqs' = Issue(r,
        [pc |-> "write", op |-> "updateSsoSettings", data |-> data,
         existing |-> Len(ssoSettings) > 0,
         overlaps |-> {q \in ReqIds \ {r} : InFlight(q)}])
  /\ last' = [op |-> "updateSsoSettings", phase |-> "select", req |-> r]
  /\ UNCHANGED <<users, crmUsers, resetTokens, ssoSettings, authAuditLog, sessions,
                 pendingStates, now, ticks, ghost, auditDown>>

\* The update of the row that was read, or the insert of a new row when
\* none was; no constraint of sso_settings limits the number of rows.
SsoSettingsWrite(r) ==
  /\ reqs[r].pc = "write"
  /\ reqs[r].op = "updateSsoSettings"
  /\ ssoSettings' = IF reqs[r].existing
                      THEN [ssoSettings EXCEPT ![1] = Merge(@, reqs[r].data)]
                      ELSE Append(ssoSettings, Merge(DefaultSsoSettings, reqs[r].data))
  /\ reqs' = [reqs EXCEPT ![r].pc = "done"]
  /\ last' = [op |-> "updateSsoSettings", phase |-> "write", req |-> r]
  /\ UNCHANGED <<users, crmUsers, resetTokens, authAuditLog, sessions,
                 pendingStates, now, ticks, ghost, auditDown>>

\* Concurrent policy updates.
NextPolicy ==
  \/ \E r \in ReqIds, data \in PolicyPatches : SsoSettingsSelect(r, data)
  \/ \E r \in ReqIds : SsoSettingsWrite(r)

SpecPolicy == Init /\ [][NextPolicy]_vars


(* ------------------------ administrative routes ------------------------ *)

\* getAuditLogs(limit = 100)
AuditLogLimit == 100

\* GET /api/auth/audit-log: the oldest rows first, at most `limit` of them.
GetAuditLogs ==
  /\ last' = [op |-> "getAuditLogs",
              logs |-> SubSeq(authAuditLog, 1,
                         IF Len(authAuditLog) < AuditLogLimit
                           THEN Len(authAuditLog) ELSE AuditLogLimit)]
  /\ UNCHANGED <<users, crmUsers, resetTokens, ssoSettings, authAuditLog, sessions,
                 pendingStates, now, ticks, reqs, ghost, auditDown>>

\* GET /api/auth/sso-settings
GetSsoSettings ==
  /\ last' = [op |-> "getSsoSettings",
              rows |-> IF Len(ssoSettings) = 0 THEN <<>> ELSE <<ssoSettings[1]>>]
  /\ UNCHANGED <<users, crmUsers, resetTokens, ssoSettings, authAuditLog, sessions,
                 pendingStates, now, ticks, reqs, ghost, auditDown>>

\* The isAdmin middleware of request r has just called next().
Admitted(r) ==
  /\ reqs[r].op = "gate"
  /\ reqs[r].gate = "isAdmin"
  /\ reqs[r].pc = "done"
  /\ reqs[r].status = "next"
  /\ last.op = "request"
  /\ last.phase = "gate"
  /\ last.req = r

\* app.<method>(path, isAdmin, handler): the handler runs as the gate's
\* next().
AdminRoute(r, handler) == Admitted(r) /\ handler

\* The routes behind isAdmin, the surrounding application changing roles,
\* and federated logins, which no gate precedes.
NextAdmin ==
  \/ Register(1, EmailLower, PwGood, 1)
  \/ Register(2, EmailOther, PwGood, 1)
  \/ \E role \in {"admin", "sales"} : UpdateCrmUser(1, role)
  \/ \E sid \in SessionIds : PassportSession(1, sid, "isAdmin")
  \/ IsAdmin(1)
  \/ AdminRoute(1, DisableUser(2))
  \/ AdminRoute(1, EnableUser(2))
  \/ AdminRoute(1, LinkMicrosoftAccount(2, "m2", "t2"))
  \/ AdminRoute(1, UnlinkMicrosoftAccount(2))
  \/ AdminRoute(1, GetSsoSettings)
  \/ AdminRoute(1, UpdateSsoSettings([autoProvisionUsers |-> FALSE]))
  \/ AdminRoute(1, GetAuditLogs)
  \/ GenerateState(NextLoginState)
  \/ \E v \in DOMAIN pendingStates :
        MicrosoftCallback(2, v,
           Response(TRUE, "valid", Claims("t1", NullEmail, NullEmail), TRUE,
                    Profile(EmailOther, NullEmail, NullId), NullId))

SpecAdmin == Init /\ [][NextAdmin]_vars



(* C9: for an email not yet registered (ignoring case) and a password of   *)
(* length >= 8, register followed by a login with the same password and    *)
(* the same email in any letter case, the account not being disabled,      *)
(* succeeds and returns the account whose stored email equals the given    *)
(* email ignoring case.                                                    *)
C9_RegisterThenLogin ==
  [][ ( /\ last'.op = "login"
        /\ \E u \in DOMAIN ghost.creds :
              /\ ghost.creds[u].password = last'.password
              /\ ToLowerCase(ghost.creds[u].email) = ToLowerCase(last'.email)
              /\ ~users[u].isDisabled )
      => ( /\ last'.status = 200
           /\ last'.userId \in DOMAIN ghost.creds
           /\ ToLowerCase(ghost.creds[last'.userId].email) = ToLowerCase(last'.email)
           /\ ToLowerCase(users'[last'.userId].email) = ToLowerCase(last'.email)
           /\ sessions'[last'.sid] = last'.userId ) ]_vars

\* A login that succeeded with the email in another letter case than the
\* one the account was registered with.
C9_Witness ==
  /\ last.op = "login"
  /\ last.status = 200
  /\ ghost.creds[last.userId].email # last.email
  /\ Len(ghost.creds[last.userId].password) >= MinPasswordLength

(* C10: for a registered, enabled local account with a password, a login   *)
(* with a password other than the account's fails with the generic         *)
(* invalid-credentials error, appends exactly one audit event (action      *)
(* failed_login, success false) and nothing else, and neither updates      *)
(* last-login nor creates a session.                                       *)
C10_WrongPasswordLogin ==
  [][ ( /\ last'.op = "login"
        /\ \E u \in DOMAIN ghost.creds :
              /\ users[u].email = ToLowerCase(last'.email)
              /\ users[u].authProvider = "local"
              /\ users[u].passwordHash # NullHash
              /\ ~users[u].isDisabled
              /\ ghost.creds[u].password # last'.password )
      => ( /\ last'.status = 401
           /\ last'.message = ErrInvalidCredentials
           /\ Len(authAuditLog') = Len(authAuditLog) + 1
           /\ SubSeq(authAuditLog', 1, Len(authAuditLog)) = authAuditLog
           /\ authAuditLog'[Len(authAuditLog')].action = "failed_login"
           /\ authAuditLog'[Len(authAuditLog')].success = FALSE
           /\ users' = users
           /\ sessions' = sessions ) ]_vars

\* A login with the wrong password for an existing, enabled account.
C10_Witness ==
  /\ last.op = "login"
  /\ last.status = 401
  /\ last.userId \in DOMAIN users
  /\ ~users[last.userId].isDisabled
  /\ ghost.creds[last.userId].password # last.password
  /\ authAuditLog[Len(authAuditLog)].failureReason = "Invalid password"


(* C1: two resetPassword calls issued concurrently with the same valid,    *)
(* unexpired, unused token and new passwords of length >= 8 end, in every  *)
(* interleaving of their reads and writes, with exactly one success and    *)
(* one failure; the token is never redeemed twice.                         *)
C1_ExactlyOneRedemption ==
  \A r1 \in ReqIds : \A r2 \in ReqIds \ {r1} :
     ( /\ reqs[r1].op = "reset" /\ reqs[r2].op = "reset"
       /\ reqs[r1].pc = "done" /\ reqs[r2].pc = "done"
       /\ reqs[r1].token = reqs[r2].token
       /\ Len(reqs[r1].password) >= MinPasswordLength
       /\ Len(reqs[r2].password) >= MinPasswordLength
       /\ r1 \in reqs[r2].overlaps )
     => (reqs[r1].success # reqs[r2].success)

(* C2: once a resetPassword call with a token has completed successfully,  *)
(* every resetPassword call with the same token that starts afterwards     *)
(* fails with the used-token error and leaves the store (the account's     *)
(* password hash, the token row) unchanged.                                *)
C2_SecondResetFails ==
  [][ ( /\ last'.op = "resetPassword"
        /\ last'.phase = "select"
        /\ last'.token \in ghost.redeemed )
      => ( /\ last'.status = 400
           /\ last'.message = ErrTokenUsed
           /\ reqs'[last'.req].pc = "done"
           /\ ~reqs'[last'.req].success
           /\ users' = users
           /\ resetTokens' = resetTokens ) ]_vars

\* A second call, with an acceptable password, refused after a redemption.
C2_Witness ==
  /\ last.op = "resetPassword"
  /\ last.phase = "select"
  /\ last.token \in ghost.redeemed
  /\ last.message = ErrTokenUsed
  /\ Len(last.password) >= MinPasswordLength

(* C3 as claimed: for every reset token whose expiry time has passed,      *)
(* resetPassword fails with the expired-token error whatever the new       *)
(* password is, and changes neither the account's password hash nor the    *)
(* token's consumed timestamp.                                             *)
C3_ExpiredAlwaysExpiredError ==
  [][ ( /\ last'.op = "resetPassword"
        /\ last'.phase = "select"
        /\ \E t \in TokensByToken(last'.token) : now > resetTokens[t].expiresAt )
      => ( /\ last'.status = 400
           /\ last'.message = ErrTokenExpired
           /\ users' = users
           /\ resetTokens' = resetTokens ) ]_vars

(* C3 as amended: for every reset token whose expiry time has passed,      *)
(* resetPassword fails whatever the new password is, with the used-token   *)
(* error when the token was already consumed and with the expired-token    *)
(* error otherwise, and changes neither the account's password hash nor    *)
(* the token's consumed timestamp.                                         *)
C3_ExpiredTokenFails ==
  [][ ( /\ last'.op = "resetPassword"
        /\ last'.phase = "select"
        /\ \E t \in TokensByToken(last'.token) : now > resetTokens[t].expiresAt )
      => ( /\ last'.status = 400
           /\ \A t \in TokensByToken(last'.token) :
                 last'.message = IF resetTokens[t].usedAt # NullTime
                                   THEN ErrTokenUsed ELSE ErrTokenExpired
           /\ reqs'[last'.req].pc = "done"
           /\ ~reqs'[last'.req].success
           /\ users' = users
           /\ resetTokens' = resetTokens ) ]_vars

\* An expired, unconsumed token presented with a password that is too short.
C3_Witness ==
  /\ last.op = "resetPassword"
  /\ last.phase = "select"
  /\ last.message = ErrTokenExpired
  /\ Len(last.password) < MinPasswordLength
  /\ \E t \in TokensByToken(last.token) :
        now > resetTokens[t].expiresAt /\ resetTokens[t].usedAt = NullTime


(* C4: for a request carrying an otherwise-valid session whose account is  *)
(* disabled in the store when the request arrives, the isAuthenticated     *)
(* gate answers 403, never calls next and ends the session; the flag it    *)
(* uses is the one read from the store for this request.                   *)
C4_DisabledSessionRejected ==
  [][ ( /\ last'.op = "request"
        /\ last'.phase = "gate"
        /\ last'.gate = "isAuthenticated"
        /\ reqs[last'.req].storeDisabled )
      => ( /\ last'.status = "403"
           /\ reqs'[last'.req].status = "403"
           /\ last'.sid \notin DOMAIN sessions' ) ]_vars

\* A session opened while the account was enabled, refused after a disable.
C4_Witness ==
  /\ last.op = "request"
  /\ last.phase = "gate"
  /\ last.gate = "isAuthenticated"
  /\ last.status = "403"
  /\ reqs[last.req].storeDisabled
  /\ last.sid \notin DOMAIN sessions
  /\ users[reqs[last.req].user.id].isDisabled

(* C5: the isAdmin gate admits a request only if the isAuthenticated gate  *)
(* would also admit it and the caller's CRM profile role is admin; a       *)
(* request whose account is disabled is never admitted by isAdmin.         *)
C5_IsAdminRequiresIsAuthenticated ==
  [][ ( /\ last'.op = "request"
        /\ last'.phase = "gate"
        /\ last'.gate = "isAdmin"
        /\ last'.status = "next" )
      => ( /\ IsAuthenticatedDecision(reqs[last'.req].user) = "next"
           /\ reqs[last'.req].user.id \in DOMAIN crmUsers
           /\ crmUsers[reqs[last'.req].user.id] = "admin" ) ]_vars

(* C6: after disableUser(a) has completed and until enableUser(a)          *)
(* completes, every request that arrives on a session of account a is     *)
(* rejected by the gate guarding it, isAuthenticated or isAdmin.           *)
C6_DisabledRejectedByGates ==
  [][ ( /\ last'.op = "request"
        /\ last'.phase = "gate"
        /\ reqs[last'.req].storeDisabled )
      => last'.status # "next" ]_vars

(* C7: a local login attempt for a disabled account fails with the         *)
(* account-disabled error, and after it no live session of that account    *)
(* remains.                                                                *)
C7_DisabledLoginEndsSessions ==
  [][ ( /\ last'.op = "login"
        /\ \E u \in UsersByEmail(ToLowerCase(last'.email)) : users[u].isDisabled )
      => ( /\ last'.status = 401
           /\ last'.message = ErrDisabled
           /\ \A s \in DOMAIN sessions' :
                 sessions'[s] \notin UsersByEmail(ToLowerCase(last'.email)) ) ]_vars


(* C8: validateState(v) returns true only if v was produced by             *)
(* generateState, was not passed to validateState before and is not older  *)
(* than 10 minutes; every call leaves v out of the pending set, whatever   *)
(* it returns, so it returns true at most once per value.                  *)
C8_StateSingleUse ==
  [][ (last'.op = "validateState")
      => ( /\ last'.state \notin DOMAIN pendingStates'
           /\ last'.result =>
                ( /\ last'.state \in DOMAIN ghost.generated
                  /\ last'.state \notin ghost.validated
                  /\ now - ghost.generated[last'.state] <= STATE_EXPIRY_MS ) ) ]_vars

\* A generated value refused because it is older than the window, after
\* another generated value was presented and consumed.
C8_Witness ==
  /\ last.op = "validateState"
  /\ ~last.result
  /\ last.state \in DOMAIN ghost.generated
  /\ now - ghost.generated[last.state] > STATE_EXPIRY_MS
  /\ \E w \in ghost.validated \ {last.state} :
        w \in DOMAIN ghost.generated /\ w \notin DOMAIN pendingStates



(* C11: a login with email e and a non-matching password gets the same     *)
(* caller-visible result (HTTP status 401 and the generic message) whether *)
(* no account has email e or an enabled account with a password has it;    *)
(* only the failure reason written to the audit log tells the two apart.   *)
C11_LoginEnumeration ==
  [][ LET found == {u \in DOMAIN users :
                      ToLowerCase(users[u].email) = ToLowerCase(last'.email)}
      IN  ( /\ last'.op = "login"
            /\ \/ found = {}
               \/ \E u \in found : /\ ~users[u].isDisabled
                                   /\ users[u].passwordHash # NullHash
                                   /\ u \in DOMAIN ghost.creds
                                   /\ ghost.creds[u].password # last'.password )
          => ( /\ last'.status = 401
               /\ last'.message = "Invalid email or password"
               /\ authAuditLog'[Len(authAuditLog')].failureReason =
                    IF found = {} THEN "User not found" ELSE "Invalid password" )
    ]_vars

\* The same email was refused once while no account had it and once, with a
\* wrong password, after an account was registered under it.
C11_Witness ==
  /\ last.op = "login"
  /\ last.status = 401
  /\ authAuditLog[Len(authAuditLog)].failureReason = "Invalid password"
  /\ \E i \in DOMAIN authAuditLog :
        /\ authAuditLog[i].action = "failed_login"
        /\ authAuditLog[i].failureReason = "User not found"
        /\ authAuditLog[i].email = last.email

(* C12: register fails with the duplicate-email error when an account with *)
(* the same email ignoring case exists, else with the weak-password error  *)
(* when the password is shorter than 8; a failed register creates no       *)
(* account and no audit event; any other register creates exactly one      *)
(* account (origin local, email not verified, a password hash) and appends *)
(* exactly one register audit event.                                       *)
C12_RegisterOutcomes ==
  [][ last'.op = "register" =>
      LET dup  == \E u \in DOMAIN users :
                     ToLowerCase(users[u].email) = ToLowerCase(last'.email)
          weak == Len(last'.password) < 8
          id   == last'.userId
      IN  IF dup \/ weak
            THEN /\ last'.status = 400
                 /\ dup => last'.message = ErrDuplicateEmail
                 /\ ~dup => last'.message = ErrWeakPassword
                 /\ users' = users
                 /\ authAuditLog' = authAuditLog
            ELSE /\ last'.status = 201
                 /\ id \notin DOMAIN users
                 /\ DOMAIN users' = DOMAIN users \cup {id}
                 /\ \A u \in DOMAIN users : users'[u] = users[u]
                 /\ users'[id].authProvider = "local"
                 /\ users'[id].emailVerified = FALSE
                 /\ users'[id].passwordHash # NullHash
                 /\ Len(authAuditLog') = Len(authAuditLog) + 1
                 /\ SubSeq(authAuditLog', 1, Len(authAuditLog)) = authAuditLog
                 /\ authAuditLog'[Len(authAuditLog')].action = "register"
                 /\ authAuditLog'[Len(authAuditLog')].userId = id ]_vars

\* A register refused as a duplicate (email in another letter case) although
\* its password is also too short.
C12_Witness ==
  /\ last.op = "register"
  /\ last.status = 400
  /\ last.message = ErrDuplicateEmail
  /\ Len(last.password) < 8
  /\ \E u \in DOMAIN users : /\ users[u].email # last.email
                             /\ users[u].email = ToLowerCase(last.email)

(* C13: createPasswordResetToken persists a token only for an existing     *)
(* account whose origin is local at the time of the request: an unknown    *)
(* email gets success with no token and a federation-only account gets the *)
(* SSO-only error, neither persisting anything; every token row is created *)
(* by such a request, for a local-origin account, expiring 24 hours later. *)
C13_ResetTokenOnlyForLocal ==
  [][ LET found == {u \in DOMAIN users :
                      ToLowerCase(users[u].email) = ToLowerCase(last'.email)}
      IN  /\ last'.op = "forgotPassword" =>
                IF found = {}
                  THEN /\ last'.status = 200
                       /\ last'.token = NoToken
                       /\ resetTokens' = resetTokens
                ELSE IF \E u \in found : users[u].authProvider # "local"
                  THEN /\ last'.status = 400
                       /\ last'.message = ErrSsoOnlyReset
                       /\ last'.token = NoToken
                       /\ resetTokens' = resetTokens
                ELSE TRUE
          /\ \A k \in DOMAIN resetTokens' \ DOMAIN resetTokens :
                /\ last'.op = "forgotPassword"
                /\ resetTokens'[k].userId \in found
                /\ users[resetTokens'[k].userId].authProvider = "local"
                /\ resetTokens'[k].expiresAt = now + 24 * 60 * 60 * 1000
                /\ resetTokens'[k].usedAt = NullTime
          /\ \A k \in DOMAIN resetTokens :
                /\ k \in DOMAIN resetTokens'
                /\ resetTokens'[k].userId = resetTokens[k].userId
                /\ resetTokens'[k].expiresAt = resetTokens[k].expiresAt ]_vars

\* A reset request refused for a federation-only account while a token
\* issued to a local account is in the store.
C13_Witness ==
  /\ last.op = "forgotPassword"
  /\ last.status = 400
  /\ last.message = ErrSsoOnlyReset
  /\ \E u \in DOMAIN users : /\ users[u].email = ToLowerCase(last.email)
                             /\ users[u].authProvider = "microsoft"
  /\ \E k \in DOMAIN resetTokens : users[resetTokens[k].userId].authProvider = "local"

(* C14: the forgot-password response for an email with a matching local    *)
(* account is identical to the response for an unknown email (status 200,  *)
(* the generic message) and never contains the reset token.                *)
C14_ForgotPasswordConstantResponse ==
  [][ ( /\ last'.op = "forgotPassword"
        /\ \A u \in DOMAIN users :
              ToLowerCase(users[u].email) = ToLowerCase(last'.email)
                 => users[u].authProvider = "local" )
      => ( /\ last'.status = 200
           /\ last'.message = MsgResetSent
           /\ last'.token = NoToken ) ]_vars

(* C15: a federated login callback in which the email (or preferred        *)
(* username) claim of the verified ID token differs, ignoring case, from   *)
(* the email of the fetched profile under which the account is resolved    *)
(* fails with the mismatch error, and no account is created or updated.    *)
C15_MismatchRejected ==
  [][ LET p == last'.provider
          resolved == OrElse(p.profile.mail, p.profile.userPrincipalName)
      IN  ( /\ last'.op = "ssoCallback"
            /\ \E i \in DOMAIN last'.calls : last'.calls[i] = "profile"
            /\ p.idToken = "valid"
            /\ p.profileOk
            /\ IdTokenEmail(p.claims) # NullEmail
            /\ resolved # NullEmail
            /\ ToLowerCase(IdTokenEmail(p.claims)) # ToLowerCase(resolved) )
          => ( /\ ~last'.success
               /\ last'.message = ErrMismatch
               /\ users' = users ) ]_vars

(* C16: when the ID token of a federated login callback fails              *)
(* verification, the callback fails before any call to the profile         *)
(* endpoint or the organization endpoint, and no account is created or     *)
(* updated.                                                                *)
C16_InvalidTokenStopsBeforeProfile ==
  [][ ( /\ last'.op = "ssoCallback"
        /\ last'.provider.idToken = "invalid" )
      => ( /\ ~last'.success
           /\ \A i \in DOMAIN last'.calls :
                 last'.calls[i] \notin {"profile", "organization"}
           /\ users' = users
           /\ crmUsers' = crmUsers
           /\ sessions' = sessions ) ]_vars

\* A callback with a live state whose ID token failed verification.
C16_Witness ==
  /\ last.op = "ssoCallback"
  /\ last.provider.idToken = "invalid"
  /\ last.state \in DOMAIN ghost.generated
  /\ last.calls = <<"token", "keys">>
  /\ last.message = ErrIdToken

(* C17: a federated login callback binds or creates an account (and so     *)
(* succeeds and issues a session) only if the provider returned an         *)
(* identity token and it passed verification.                              *)
C17_BindingRequiresVerifiedToken ==
  [][ ( /\ last'.op = "ssoCallback"
        /\ \/ last'.success
           \/ users' # users
           \/ sessions' # sessions )
      => last'.provider.idToken = "valid" ]_vars

(* C18: a federated login rejected by the Identity Resolver (tenant not in *)
(* a non-empty allow-list, else email domain not in a non-empty            *)
(* allow-list, else existing account disabled, else account absent with    *)
(* auto-provisioning off: the first of these that applies decides the      *)
(* error) creates and modifies no account and appends exactly one          *)
(* failed_sso_login audit event.                                           *)
C18_PolicyRejectionFrame ==
  [][ LET p == last'.provider
          email == ToLowerCase(OrElse(p.profile.mail, p.profile.userPrincipalName))
          policy == IF Len(ssoSettings) > 0 THEN ssoSettings[1] ELSE DefaultSsoSettings
          existing == {u \in DOMAIN users : users[u].email = email}
          expected ==
            IF policy.allowedTenantIds # {} /\ last'.tenantId \notin policy.allowedTenantIds
              THEN ErrTenant
            ELSE IF /\ policy.allowedEmailDomains # {}
                    /\ EmailDomain(email) \notin policy.allowedEmailDomains
              THEN ErrDomain
            ELSE IF \E u \in existing : users[u].isDisabled THEN ErrDisabled
            ELSE IF existing = {} /\ ~policy.autoProvisionUsers THEN ErrNoAccount
            ELSE ""
      IN  ( /\ last'.op = "ssoCallback"
            /\ last'.message \notin {ErrState, ErrExchange, ErrIdToken, ErrProfile,
                                     ErrMismatch, ErrNoEmail}
            /\ expected # "" )
          => ( /\ ~last'.success
               /\ last'.message = expected
               /\ users' = users
               /\ crmUsers' = crmUsers
               /\ sessions' = sessions
               /\ Len(authAuditLog') = Len(authAuditLog) + 1
               /\ SubSeq(authAuditLog', 1, Len(authAuditLog)) = authAuditLog
               /\ authAuditLog'[Len(authAuditLog')].action = "failed_sso_login"
               /\ authAuditLog'[Len(authAuditLog')].success = FALSE ) ]_vars

\* A login refused for its tenant although its email domain is not allowed
\* either.
C18_Witness ==
  /\ last.op = "ssoCallback"
  /\ last.message = ErrTenant
  /\ Len(ssoSettings) > 0
  /\ ssoSettings[1].allowedEmailDomains # {}
  /\ EmailDomain(ToLowerCase(OrElse(last.provider.profile.mail,
                                    last.provider.profile.userPrincipalName)))
        \notin ssoSettings[1].allowedEmailDomains
  /\ authAuditLog[Len(authAuditLog)].action = "failed_sso_login"

(* C19 as stated: under a policy with a non-empty email-domain allow-list  *)
(* and auto-provisioning on, a federated login whose domain is not listed  *)
(* is rejected with the domain error; one whose domain is listed and that  *)
(* has no prior account creates exactly one federated-origin account,      *)
(* email verified, whose bootstrapped role profile carries the policy's    *)
(* default SSO role; a profile bootstrapped for a local-origin account     *)
(* carries role sales.                                                     *)
C19_DomainPolicy ==
  [][ LET p == last'.provider
          email == ToLowerCase(OrElse(p.profile.mail, p.profile.userPrincipalName))
          id == last'.userId
      IN  /\ ( /\ last'.op = "ssoCallback"
               /\ last'.message \notin {ErrState, ErrExchange, ErrIdToken, ErrProfile,
                                        ErrMismatch, ErrNoEmail}
               /\ Len(ssoSettings) > 0
               /\ ssoSettings[1].allowedEmailDomains # {}
               /\ ssoSettings[1].autoProvisionUsers )
             => /\ EmailDomain(email) \notin ssoSettings[1].allowedEmailDomains
                   => (~last'.success /\ last'.message = ErrDomain /\ users' = users)
                /\ ( /\ EmailDomain(email) \in ssoSettings[1].allowedEmailDomains
                     /\ \A u \in DOMAIN users : users[u].email # email )
                   => ( /\ last'.success
                        /\ id \notin DOMAIN users
                        /\ DOMAIN users' = DOMAIN users \cup {id}
                        /\ \A u \in DOMAIN users : users'[u] = users[u]
                        /\ users'[id].email = email
                        /\ users'[id].authProvider = "microsoft"
                        /\ users'[id].emailVerified
                        /\ crmUsers'[id] = ssoSettings[1].defaultRoleForSso )
          /\ \A u \in DOMAIN crmUsers' \ DOMAIN crmUsers :
                users'[u].authProvider = "local" => crmUsers'[u] = "sales" ]_vars

(* C19, amended: the same, for a federated login whose tenant the policy's *)
(* tenant allow-list does not reject (the list is empty or holds the       *)
(* tenant): the tenant test comes first and decides the error otherwise.   *)
C19_DomainPolicyTenantAllowed ==
  [][ LET p == last'.provider
          email == ToLowerCase(OrElse(p.profile.mail, p.profile.userPrincipalName))
          id == last'.userId
      IN  /\ ( /\ last'.op = "ssoCallback"
               /\ last'.message \notin {ErrState, ErrExchange, ErrIdToken, ErrProfile,
                                        ErrMismatch, ErrNoEmail}
               /\ Len(ssoSettings) > 0
               /\ ssoSettings[1].allowedEmailDomains # {}
               /\ ssoSettings[1].autoProvisionUsers
               /\ \/ ssoSettings[1].allowedTenantIds = {}
                  \/ last'.tenantId \in ssoSettings[1].allowedTenantIds )
             => /\ EmailDomain(email) \notin ssoSettings[1].allowedEmailDomains
                   => (~last'.success /\ last'.message = ErrDomain /\ users' = users)
                /\ ( /\ EmailDomain(email) \in ssoSettings[1].allowedEmailDomains
                     /\ \A u \in DOMAIN users : users[u].email # email )
                   => ( /\ last'.success
                        /\ id \notin DOMAIN users
                        /\ DOMAIN users' = DOMAIN users \cup {id}
                        /\ \A u \in DOMAIN users : users'[u] = users[u]
                        /\ users'[id].email = email
                        /\ users'[id].authProvider = "microsoft"
                        /\ users'[id].emailVerified
                        /\ crmUsers'[id] = ssoSettings[1].defaultRoleForSso )
          /\ \A u \in DOMAIN crmUsers' \ DOMAIN crmUsers :
                users'[u].authProvider = "local" => crmUsers'[u] = "sales" ]_vars

\* An account auto-provisioned under a domain allow-list, with a default
\* SSO role other than sales, next to a local account whose role is sales.
C19_Witness ==
  /\ last.op = "ssoCallback"
  /\ last.success
  /\ Len(ssoSettings) > 0
  /\ ssoSettings[1].allowedEmailDomains # {}
  /\ users[last.userId].authProvider = "microsoft"
  /\ users[last.userId].passwordHash = NullHash
  /\ crmUsers[last.userId] = "manager"
  /\ \E u \in DOMAIN users : users[u].authProvider = "local" /\ crmUsers[u] = "sales"

(* C20: unlinkFederation fails for an unknown account id, and fails with   *)
(* the cannot-unlink-without-password error when the account's origin is   *)
(* federated and it has no password hash, changing nothing in either case; *)
(* otherwise it clears the federated subject and tenant ids and sets the   *)
(* origin to local.                                                        *)
C20_UnlinkFederation ==
  [][ last'.op = "unlink" =>
      LET u == last'.userId IN
      IF u \notin DOMAIN users
        THEN /\ ~last'.success
             /\ users' = users
             /\ authAuditLog' = authAuditLog
      ELSE IF users[u].authProvider = "microsoft" /\ users[u].passwordHash = NullHash
        THEN /\ ~last'.success
             /\ last'.error = ErrCannotUnlink
             /\ users' = users
             /\ authAuditLog' = authAuditLog
      ELSE /\ last'.success
           /\ DOMAIN users' = DOMAIN users
           /\ \A x \in DOMAIN users \ {u} : users'[x] = users[x]
           /\ users'[u].microsoftUserId = NullId
           /\ users'[u].microsoftTenantId = NullId
           /\ users'[u].authProvider = "local"
           /\ users'[u].passwordHash = users[u].passwordHash
           /\ users'[u].email = users[u].email ]_vars

\* An unlink refused for a federated account without a password, after an
\* unlink of a local account went through.
C20_Witness ==
  /\ last.op = "unlink"
  /\ ~last.success
  /\ last.error = ErrCannotUnlink
  /\ users[last.userId].microsoftUserId # NullId
  /\ \E i \in DOMAIN authAuditLog :
        authAuditLog[i].action = "microsoft_account_unlinked"

C23_FailuresAudited ==
  [][ (\/ last'.op = "login" /\ last'.status = 401
       \/ last'.op = "forgotPassword" /\ last'.status = 400
       \/ /\ last'.op = "resetPassword"
          /\ last'.status = 400
          /\ last'.message \in {ErrTokenInvalid, ErrTokenUsed, ErrTokenExpired})
      => /\ Len(authAuditLog') = Len(authAuditLog) + 1
         /\ authAuditLog'[Len(authAuditLog')].success = FALSE
         /\ authAuditLog'[Len(authAuditLog')].failureReason # ""
    ]_vars

C26_OriginAfterFederatedLogin ==
  [][ (/\ last'.op = "ssoCallback"
       /\ last'.success
       /\ last'.userId \in DOMAIN users)
      => LET old == users[last'.userId]
             new == users'[last'.userId]
             pr  == last'.provider.profile
         IN  /\ ~old.isDisabled
             /\ (new.authProvider = "microsoft") <=> (old.passwordHash = NullHash)
             /\ old.passwordHash # NullHash => new.authProvider = old.authProvider
             /\ new.passwordHash = old.passwordHash
             /\ new.microsoftUserId = pr.id
             /\ new.microsoftTenantId = last'.tenantId
             /\ new.firstName =
                  (IF pr.givenName # NullId THEN pr.givenName ELSE old.firstName)
    ]_vars

\* A second federated login to an account without a password, with a
\* profile that carries no given name: the origin is federated and the
\* name is the one of the first login.
C26_Witness ==
  /\ last.op = "ssoCallback"
  /\ last.success
  /\ last.provider.profile.givenName = NullId
  /\ users[last.userId].lastLoginAt # NullTime
  /\ users[last.userId].passwordHash = NullHash
  /\ users[last.userId].authProvider = "microsoft"
  /\ users[last.userId].firstName = "Bo"

(* C27: the tenant id handed to the policy is the first available of the   *)
(* tid claim of the verified token, the organization id of the profile     *)
(* API, the configured default tenant and the literal "unknown"; the       *)
(* organization lookup is made only when the verified token supplies no    *)
(* tid.                                                                    *)
C27_TenantResolution ==
  [][ last'.op = "ssoCallback" =>
        LET p == last'.provider
            tid == IF p.idToken = "valid" THEN p.claims.tid ELSE NullId
            asked == \E i \in DOMAIN last'.calls : last'.calls[i] = "organization"
            resolved == /\ ValidateStateResult(last'.state)
                        /\ p.tokenOk
                        /\ p.idToken # "invalid"
                        /\ p.profileOk
        IN  IF resolved
              THEN /\ last'.tenantId =
                        (IF tid # NullId THEN tid
                         ELSE IF p.org # NullId THEN p.org
                         ELSE IF ConfigTenantId # NullId THEN ConfigTenantId
                         ELSE "unknown")
                   /\ asked <=> (tid = NullId)
              ELSE ~asked
    ]_vars

\* A login whose verified token has no tid and whose organization lookup
\* gave nothing went on under the configured tenant.
C27_Witness ==
  /\ last.op = "ssoCallback"
  /\ last.provider.idToken = "valid"
  /\ last.provider.claims.tid = NullId
  /\ last.provider.org = NullId
  /\ last.tenantId = ConfigTenantId
  /\ last.calls = <<"token", "keys", "profile", "organization">>

(* C28: no two accounts have emails that are equal ignoring case, whatever *)
(* the interleaving of concurrent registrations and auto-provisioning      *)
(* federated logins (each a select followed by an insert) and whatever the *)
(* case the emails are written in.                                         *)
C28_UniqueEmails ==
  \A u \in DOMAIN users, w \in DOMAIN users :
     ToLowerCase(users[u].email) = ToLowerCase(users[w].email) => u = w

\* Two requests for the same person both passed the select; the insert of
\* the second was refused: a registration got 500 after a federated login
\* had created the account.
C28_Witness ==
  /\ \E r \in ReqIds :
        /\ reqs[r].op = "register"
        /\ reqs[r].pc = "done"
        /\ reqs[r].status = 500
  /\ \E u \in DOMAIN users : users[u].authProvider = "microsoft"

(* C24: no federated login blocks for ever: a handleCallback that waits on *)
(* the token exchange, the key discovery, the profile fetch or the         *)
(* organization lookup eventually returns, a failure when the call is not  *)
(* answered.                                                               *)
C24_CallbackReturns ==
  \A r \in ReqIds :
     (reqs[r].op = "callback" /\ reqs[r].pc = "await") ~> (reqs[r].pc = "done")

(* C29: the state is validated and consumed before any external call: a    *)
(* request that has sent a call holds a state that is no longer pending; a *)
(* callback whose state is unknown, expired or was presented before ends   *)
(* with the state error having sent no call and changed no account,        *)
(* profile, session or audit row, whatever became of the first attempt.    *)
C29_StateBeforeCalls ==
  [][ /\ \A r \in ReqIds :
           (reqs'[r].op = "callback" /\ reqs'[r].made > 0)
              => reqs'[r].state \notin DOMAIN pendingStates'
      /\ (last'.op = "callback" /\ last'.phase = "start") =>
           LET q == reqs'[last'.req] IN
           /\ q.state \notin DOMAIN pendingStates'
           /\ (~ValidateStateResult(q.state) \/ q.state \in ghost.validated) =>
                /\ q.pc = "done"
                /\ q.error = ErrState
                /\ q.made = 0
                /\ q.plan.calls = <<>>
                /\ UNCHANGED <<users, crmUsers, sessions, authAuditLog>>
    ]_vars

\* The first attempt failed at the token exchange; the second attempt with
\* the same state was refused.
C29_Witness ==
  \E r \in ReqIds, q \in ReqIds :
     /\ r # q
     /\ reqs[r].op = "callback" /\ reqs[q].op = "callback"
     /\ reqs[r].state = reqs[q].state
     /\ reqs[r].pc = "done" /\ reqs[r].error = ErrExchange
     /\ reqs[q].pc = "done" /\ reqs[q].error = ErrState

(* C25: from a store with no policy record, after any sequence and any     *)
(* interleaving of policy updates the store holds at most one policy       *)
(* record.                                                                 *)
C25_AtMostOnePolicyRecord == Len(ssoSettings) <= 1

\* A request that isAdmin admitted for a caller whose role profile says
\* admin is being handled.
C30_AdminAdmitted ==
  \E r \in ReqIds :
     /\ Admitted(r)
     /\ reqs[r].user.id \in DOMAIN crmUsers
     /\ crmUsers[reqs[r].user.id] = "admin"

C30_Guarded ==
  \/ \E u \in DOMAIN users : users'[u].isDisabled # users[u].isDisabled
  \/ ssoSettings' # ssoSettings
  \/ last'.op \in {"getAuditLogs", "getSsoSettings"}

C30_LinkageChanged ==
  \E u \in DOMAIN users :
     \/ users'[u].microsoftUserId # users[u].microsoftUserId
     \/ users'[u].microsoftTenantId # users[u].microsoftTenantId
     \/ users'[u].authProvider # users[u].authProvider

(* C30 as stated: only a request that isAdmin admitted for a caller with   *)
(* role admin changes an account's disabled flag, an account's federation  *)
(* linkage or origin, or the policy, or reads the audit log or the policy. *)
C30_OnlyAdminChanges ==
  [][ (C30_Guarded \/ C30_LinkageChanged) => C30_AdminAdmitted ]_vars

(* C30, amended: the same, except that the federated login of an account,  *)
(* which no gate precedes, sets that account's linkage; a step that is not *)
(* a federated login changes linkage or origin only for an admitted admin  *)
(* request.                                                                *)
C30_OnlyAdminChangesButLogin ==
  [][ /\ C30_Guarded => C30_AdminAdmitted
      /\ (C30_LinkageChanged /\ last'.op # "ssoCallback") => C30_AdminAdmitted
      /\ (C30_LinkageChanged /\ last'.op = "ssoCallback") =>
            \A u \in DOMAIN users :
               users'[u] # users[u] =>
                  /\ u = last'.userId
                  /\ users[u].email =
                       ToLowerCase(OrElse(last'.provider.profile.mail,
                                          last'.provider.profile.userPrincipalName))
    ]_vars

\* The request of a caller whose role is admin disabled another account.
C30_Witness ==
  /\ last.op = "user_disabled"
  /\ last.success
  /\ last.userId = 2
  /\ users[2].isDisabled
  /\ crmUsers[1] = "admin"

====
